---- MODULE Spec2Model ----
(***************************************************************************)
(* Shanten engine of the mahjong library (src/mahjong/shanten.py).         *)
(*                                                                         *)
(* A hand is a 34-count array, modelled as a function 0..33 -> Int.  The   *)
(* object of class _RegularShanten is a record with the fields the class   *)
(* keeps; the recursive search _run is a state-passing operator that       *)
(* threads this record through every increase / recurse / decrease step    *)
(* in the order the code executes them.  The two 28-bit masks              *)
(* _flag_four_copies and _flag_isolated_tiles are modelled as the sets of  *)
(* their set bit positions: x |= 1 << k is union with {k}, x &= ~(1 << k)  *)
(* is removal of k, (a | b) == a is b \subseteq a, and truthiness is       *)
(* non-emptiness.                                                          *)
(***************************************************************************)
EXTENDS Integers, Sequences, FiniteSets, TLC

\* ------------------------------------------------------------------------
\* constants.py
\* ------------------------------------------------------------------------
TERMINAL_INDICES == {0, 8, 9, 17, 18, 26}

HONOR_INDICES == {27, 28, 29, 30} \cup {31, 32, 33}

TERMINAL_AND_HONOR_INDICES == TERMINAL_INDICES \cup HONOR_INDICES

\* ------------------------------------------------------------------------
\* shanten.py : class Shanten, the constant-time solvers
\* ------------------------------------------------------------------------
TENPAI_STATE == 0

AGARI_STATE == -1

TileTypes == 0 .. 33

\* len([x for x in tiles_34 if x >= lo])
CountAtLeast(tiles_34, lo) == Cardinality({t \in TileTypes : tiles_34[t] >= lo})

\* sum(self._tiles)
RECURSIVE SumFrom(_, _)
SumFrom(tiles, t) == IF t > 33 THEN 0 ELSE tiles[t] + SumFrom(tiles, t + 1)

\* Faulty variant: every two tiles of a type counted as a pair, so that four
\* of a type are two pairs.
chiitoitsu_counting_tile_pairs(tiles_34) ==
    LET pairs == SumFrom([t \in TileTypes |-> tiles_34[t] \div 2], 0)
        kinds == CountAtLeast(tiles_34, 1)
    IN  IF pairs = 7
        THEN AGARI_STATE
        ELSE 6 - pairs + (IF kinds < 7 THEN 7 - kinds ELSE 0)

calculate_shanten_for_chiitoitsu_hand(tiles_34) ==
    LET pairs == CountAtLeast(tiles_34, 2)
        kinds == CountAtLeast(tiles_34, 1)
    IN  IF pairs = 7
        THEN AGARI_STATE
        ELSE 6 - pairs + (IF kinds < 7 THEN 7 - kinds ELSE 0)

\* Faulty variant: every doubled orphan type subtracted, not just one.
kokushi_counting_every_pair(tiles_34) ==
    LET completed_terminals ==
            Cardinality({i \in TERMINAL_AND_HONOR_INDICES : tiles_34[i] >= 2})
        terminals ==
            Cardinality({i \in TERMINAL_AND_HONOR_INDICES : tiles_34[i] # 0})
    IN  13 - terminals - completed_terminals

calculate_shanten_for_kokushi_hand(tiles_34) ==
    LET completed_terminals ==
            Cardinality({i \in TERMINAL_AND_HONOR_INDICES : tiles_34[i] >= 2})
        terminals ==
            Cardinality({i \in TERMINAL_AND_HONOR_INDICES : tiles_34[i] # 0})
    IN  13 - terminals - (IF completed_terminals # 0 THEN 1 ELSE 0)

\* ------------------------------------------------------------------------
\* shanten.py : class _RegularShanten
\* ------------------------------------------------------------------------
\* __init__: the object right after construction; _tiles is a copy of the
\* caller's sequence.
RegularShantenInit(tiles_34) ==
    [ tiles |-> [t \in TileTypes |-> tiles_34[t]],
      number_melds |-> 0,
      number_tatsu |-> 0,
      number_pairs |-> 0,
      number_jidahai |-> 0,
      flag_four_copies |-> {},
      flag_isolated_tiles |-> {},
      min_shanten |-> 8 ]

Min2(a, b) == IF a <= b THEN a ELSE b

\* Faulty variant: the correction for more than four set candidates left out.
UpdateResult_without_excess(s) ==
    LET ret0 == 8 - s.number_melds * 2 - s.number_tatsu - s.number_pairs
        ret1 == IF s.number_pairs # 0
                THEN ret0
                ELSE IF /\ s.flag_four_copies # {}
                        /\ s.flag_isolated_tiles # {}
                        /\ (s.flag_four_copies \cup s.flag_isolated_tiles) = s.flag_four_copies
                     THEN ret0 + 1
                     ELSE ret0
        ret3 == IF ret1 # AGARI_STATE /\ ret1 < s.number_jidahai
                THEN s.number_jidahai
                ELSE ret1
    IN  [s EXCEPT !.min_shanten = Min2(s.min_shanten, ret3)]

\* Faulty variant: the four-copies/isolation correction left out.
UpdateResult_without_four_copies(s) ==
    LET ret0 == 8 - s.number_melds * 2 - s.number_tatsu - s.number_pairs
        kouho0 == s.number_melds + s.number_tatsu
        kouho == IF s.number_pairs # 0 THEN kouho0 + s.number_pairs - 1 ELSE kouho0
        ret2 == IF kouho > 4 THEN ret0 + kouho - 4 ELSE ret0
        ret3 == IF ret2 # AGARI_STATE /\ ret2 < s.number_jidahai
                THEN s.number_jidahai
                ELSE ret2
    IN  [s EXCEPT !.min_shanten = Min2(s.min_shanten, ret3)]

UpdateResult(s) ==
    LET ret0 == 8 - s.number_melds * 2 - s.number_tatsu - s.number_pairs
        kouho0 == s.number_melds + s.number_tatsu
        kouho == IF s.number_pairs # 0 THEN kouho0 + s.number_pairs - 1 ELSE kouho0
        ret1 == IF s.number_pairs # 0
                THEN ret0
                ELSE IF /\ s.flag_four_copies # {}
                        /\ s.flag_isolated_tiles # {}
                        /\ (s.flag_four_copies \cup s.flag_isolated_tiles) = s.flag_four_copies
                     THEN ret0 + 1
                     ELSE ret0
        ret2 == IF kouho > 4 THEN ret1 + kouho - 4 ELSE ret1
        ret3 == IF ret2 # AGARI_STATE /\ ret2 < s.number_jidahai
                THEN s.number_jidahai
                ELSE ret2
    IN  [s EXCEPT !.min_shanten = Min2(s.min_shanten, ret3)]

IncreaseSet(s, k) ==
    [s EXCEPT !.tiles[k] = @ - 3, !.number_melds = @ + 1]

DecreaseSet(s, k) ==
    [s EXCEPT !.tiles[k] = @ + 3, !.number_melds = @ - 1]

IncreasePair(s, k) ==
    [s EXCEPT !.tiles[k] = @ - 2, !.number_pairs = @ + 1]

DecreasePair(s, k) ==
    [s EXCEPT !.tiles[k] = @ + 2, !.number_pairs = @ - 1]

IncreaseSyuntsu(s, k) ==
    [s EXCEPT !.tiles[k] = @ - 1, !.tiles[k + 1] = @ - 1, !.tiles[k + 2] = @ - 1,
              !.number_melds = @ + 1]

\* Faulty variant: the third tile of the run is not given back.
DecreaseSyuntsu_two_tiles(s, k) ==
    [s EXCEPT !.tiles[k] = @ + 1, !.tiles[k + 1] = @ + 1, !.number_melds = @ - 1]

DecreaseSyuntsu(s, k) ==
    [s EXCEPT !.tiles[k] = @ + 1, !.tiles[k + 1] = @ + 1, !.tiles[k + 2] = @ + 1,
              !.number_melds = @ - 1]

IncreaseTatsuFirst(s, k) ==
    [s EXCEPT !.tiles[k] = @ - 1, !.tiles[k + 1] = @ - 1, !.number_tatsu = @ + 1]

DecreaseTatsuFirst(s, k) ==
    [s EXCEPT !.tiles[k] = @ + 1, !.tiles[k + 1] = @ + 1, !.number_tatsu = @ - 1]

\* Faulty variant: the partial run takes the neighbour, which may be absent.
IncreaseTatsuSecond_taking_neighbour(s, k) ==
    [s EXCEPT !.tiles[k] = @ - 1, !.tiles[k + 1] = @ - 1, !.number_tatsu = @ + 1]

IncreaseTatsuSecond(s, k) ==
    [s EXCEPT !.tiles[k] = @ - 1, !.tiles[k + 2] = @ - 1, !.number_tatsu = @ + 1]

DecreaseTatsuSecond(s, k) ==
    [s EXCEPT !.tiles[k] = @ + 1, !.tiles[k + 2] = @ + 1, !.number_tatsu = @ - 1]

IncreaseIsolatedTile(s, k) ==
    [s EXCEPT !.tiles[k] = @ - 1, !.flag_isolated_tiles = @ \cup {k}]

\* Faulty variant: the tile is given back but its bit stays set.
DecreaseIsolatedTile_keeping_flag(s, k) ==
    [s EXCEPT !.tiles[k] = @ + 1]

DecreaseIsolatedTile(s, k) ==
    [s EXCEPT !.tiles[k] = @ + 1, !.flag_isolated_tiles = @ \ {k}]

\* while not self._tiles[depth]: depth += 1; if depth >= 27: break
RECURSIVE SkipEmpty(_, _)
SkipEmpty(tiles, depth) ==
    IF tiles[depth] # 0
    THEN depth
    ELSE IF depth + 1 >= 27 THEN depth + 1 ELSE SkipEmpty(tiles, depth + 1)

\* Faulty variant: the suits taken to be ten positions long.
RankInSuit_folding_at_ten(depth) ==
    LET i1 == IF depth > 9 THEN depth - 10 ELSE depth
    IN  IF i1 > 9 THEN i1 - 10 ELSE i1

\* i = depth; if i > 8: i -= 9; if i > 8: i -= 9
RankInSuit(depth) ==
    LET i1 == IF depth > 8 THEN depth - 9 ELSE depth
    IN  IF i1 > 8 THEN i1 - 9 ELSE i1

\* Sequencing of the imperative code: evaluate the statement x once, then
\* continue with the object it leaves (the continuation reads it many times).
Then(x, Continue(_)) == CHOOSE r \in {Continue(v) : v \in {x}} : TRUE

RECURSIVE Run(_, _)

\* if self._tiles[depth] == 4: ...
RunFour(s, depth, i) ==
    Then(IncreaseSet(s, depth), LAMBDA a0 :
    Then(IF i < 7 /\ a0.tiles[depth + 2] # 0
         THEN Then(IF a0.tiles[depth + 1] # 0
                   THEN DecreaseSyuntsu(Run(IncreaseSyuntsu(a0, depth), depth + 1), depth)
                   ELSE a0, LAMBDA b0 :
              DecreaseTatsuSecond(Run(IncreaseTatsuSecond(b0, depth), depth + 1), depth))
         ELSE a0, LAMBDA a1 :
    Then(IF i < 8 /\ a1.tiles[depth + 1] # 0
         THEN DecreaseTatsuFirst(Run(IncreaseTatsuFirst(a1, depth), depth + 1), depth)
         ELSE a1, LAMBDA a2 :
    Then(DecreaseIsolatedTile(Run(IncreaseIsolatedTile(a2, depth), depth + 1), depth),
         LAMBDA a3 :
    Then(IncreasePair(DecreaseSet(a3, depth), depth), LAMBDA a4 :
    Then(IF i < 7 /\ a4.tiles[depth + 2] # 0
         THEN Then(IF a4.tiles[depth + 1] # 0
                   THEN DecreaseSyuntsu(Run(IncreaseSyuntsu(a4, depth), depth), depth)
                   ELSE a4, LAMBDA b0 :
              DecreaseTatsuSecond(Run(IncreaseTatsuSecond(b0, depth), depth + 1), depth))
         ELSE a4, LAMBDA a5 :
    Then(IF i < 8 /\ a5.tiles[depth + 1] # 0
         THEN DecreaseTatsuFirst(Run(IncreaseTatsuFirst(a5, depth), depth + 1), depth)
         ELSE a5, LAMBDA a6 :
    DecreasePair(a6, depth))))))))

\* if self._tiles[depth] == 3: ...
RunThree(s, depth, i) ==
    Then(DecreaseSet(Run(IncreaseSet(s, depth), depth + 1), depth), LAMBDA a0 :
    Then(IncreasePair(a0, depth), LAMBDA a1 :
    Then(IF i < 7 /\ a1.tiles[depth + 1] # 0 /\ a1.tiles[depth + 2] # 0
         THEN DecreaseSyuntsu(Run(IncreaseSyuntsu(a1, depth), depth + 1), depth)
         ELSE Then(IF i < 7 /\ a1.tiles[depth + 2] # 0
                   THEN DecreaseTatsuSecond(
                            Run(IncreaseTatsuSecond(a1, depth), depth + 1), depth)
                   ELSE a1, LAMBDA b0 :
              IF i < 8 /\ b0.tiles[depth + 1] # 0
              THEN DecreaseTatsuFirst(Run(IncreaseTatsuFirst(b0, depth), depth + 1), depth)
              ELSE b0), LAMBDA a2 :
    Then(DecreasePair(a2, depth), LAMBDA a3 :
    IF i < 7 /\ a3.tiles[depth + 2] >= 2 /\ a3.tiles[depth + 1] >= 2
    THEN DecreaseSyuntsu(DecreaseSyuntsu(
             Run(IncreaseSyuntsu(IncreaseSyuntsu(a3, depth), depth), depth),
             depth), depth)
    ELSE a3))))

\* Faulty variant: after the run the search moves on to depth + 1 instead of
\* looking at depth again.
RunTwo_advancing(s, depth, i) ==
    Then(DecreasePair(Run(IncreasePair(s, depth), depth + 1), depth), LAMBDA a0 :
    IF i < 7 /\ a0.tiles[depth + 2] # 0 /\ a0.tiles[depth + 1] # 0
    THEN DecreaseSyuntsu(Run(IncreaseSyuntsu(a0, depth), depth + 1), depth)
    ELSE a0)

\* if self._tiles[depth] == 2: ...
RunTwo(s, depth, i) ==
    Then(DecreasePair(Run(IncreasePair(s, depth), depth + 1), depth), LAMBDA a0 :
    IF i < 7 /\ a0.tiles[depth + 2] # 0 /\ a0.tiles[depth + 1] # 0
    THEN DecreaseSyuntsu(Run(IncreaseSyuntsu(a0, depth), depth), depth)
    ELSE a0)

\* if self._tiles[depth] == 1: ...
RunOne(s, depth, i) ==
    IF /\ i < 6
       /\ s.tiles[depth + 1] = 1
       /\ s.tiles[depth + 2] # 0
       /\ s.tiles[depth + 3] # 4
    THEN DecreaseSyuntsu(Run(IncreaseSyuntsu(s, depth), depth + 2), depth)
    ELSE Then(DecreaseIsolatedTile(Run(IncreaseIsolatedTile(s, depth), depth + 1), depth),
              LAMBDA a0 :
         Then(IF i < 7 /\ a0.tiles[depth + 2] # 0
              THEN Then(IF a0.tiles[depth + 1] # 0
                        THEN DecreaseSyuntsu(
                                 Run(IncreaseSyuntsu(a0, depth), depth + 1), depth)
                        ELSE a0, LAMBDA b0 :
                   DecreaseTatsuSecond(
                       Run(IncreaseTatsuSecond(b0, depth), depth + 1), depth))
              ELSE a0, LAMBDA a1 :
         IF i < 8 /\ a1.tiles[depth + 1] # 0
         THEN DecreaseTatsuFirst(Run(IncreaseTatsuFirst(a1, depth), depth + 1), depth)
         ELSE a1))

\* The four blocks of _run below the rank computation, in the order of the
\* code; each tests the count the block before it left at depth.
RunBlocks(s, depth, i) ==
    Then(IF s.tiles[depth] = 4 THEN RunFour(s, depth, i) ELSE s, LAMBDA s4 :
    Then(IF s4.tiles[depth] = 3 THEN RunThree(s4, depth, i) ELSE s4, LAMBDA s3 :
    Then(IF s3.tiles[depth] = 2 THEN RunTwo(s3, depth, i) ELSE s3, LAMBDA s2 :
    IF s2.tiles[depth] = 1 THEN RunOne(s2, depth, i) ELSE s2)))

\* _run(depth): returns the object as the call leaves it.
Run(self, depth0) ==
    Then(self, LAMBDA s :
    IF s.min_shanten = AGARI_STATE
    THEN s
    ELSE Then(SkipEmpty(s.tiles, depth0), LAMBDA depth :
         IF depth >= 27
         THEN UpdateResult(s)
         ELSE RunBlocks(s, depth, RankInSuit(depth))))

\* _scan(init_mentsu)
Scan(s, init_mentsu) ==
    Run([s EXCEPT !.flag_four_copies = @ \cup {i \in 0 .. 26 : s.tiles[i] = 4},
                  !.number_melds = @ + init_mentsu], 0)

\* Faulty variant: four copies of an honor counted as a triplet and nothing
\* more: no jidahai, no four-copies bit, no isolated fourth tile.
RemoveCharacterTiles_quad_as_triplet(s, nc) ==
    LET isolated == {i - 27 : i \in {j \in 27 .. 33 : s.tiles[j] = 1}}
        melds == s.number_melds + Cardinality({i \in 27 .. 33 : s.tiles[i] >= 3})
        pairs == s.number_pairs + Cardinality({i \in 27 .. 33 : s.tiles[i] = 2})
    IN  [s EXCEPT !.number_melds = melds,
                  !.number_pairs = pairs,
                  !.flag_isolated_tiles = IF isolated # {} THEN @ \cup {27} ELSE @]

\* _remove_character_tiles(nc): the loop over the honors 27..33, then the
\* jidahai correction and the two summary bits (bit 27).
RemoveCharacterTiles(s, nc) ==
    LET quads == {i \in 27 .. 33 : s.tiles[i] = 4}
        four_copies == {i - 27 : i \in quads}
        isolated == four_copies \cup {i - 27 : i \in {j \in 27 .. 33 : s.tiles[j] = 1}}
        melds == s.number_melds + Cardinality(quads)
                     + Cardinality({i \in 27 .. 33 : s.tiles[i] = 3})
        pairs == s.number_pairs + Cardinality({i \in 27 .. 33 : s.tiles[i] = 2})
        jidahai0 == s.number_jidahai + Cardinality(quads)
        jidahai == IF jidahai0 # 0 /\ (nc % 3) = 2 THEN jidahai0 - 1 ELSE jidahai0
    IN  [s EXCEPT !.number_melds = melds,
                  !.number_pairs = pairs,
                  !.number_jidahai = jidahai,
                  !.flag_isolated_tiles = IF isolated # {} THEN @ \cup {27} ELSE @,
                  !.flag_four_copies =
                      IF isolated # {} /\ (four_copies \cup isolated) = four_copies
                      THEN @ \cup {27}
                      ELSE @]

\* Python's floor division by 3 (the dividend may be negative for
\* arrays with negative entries; \div of TLA+ is also floored).
FloorDiv3(n) == n \div 3

\* Faulty variant: the limit off by one the other way, 14 tiles rejected.
Calculate_rejecting_14(s) ==
    LET count_of_tiles == SumFrom(s.tiles, 0)
    IN  IF count_of_tiles >= 14
        THEN [raised |-> TRUE, value |-> 0, self |-> s]
        ELSE LET s1 == RemoveCharacterTiles(s, count_of_tiles)
                 init_mentsu == FloorDiv3(14 - count_of_tiles)
                 s2 == Scan(s1, init_mentsu)
             IN  Then(s2, LAMBDA done :
                 [raised |-> FALSE, value |-> done.min_shanten, self |-> done])

\* Faulty variant: the limit off by one, 15 tiles accepted.
Calculate_accepting_15(s) ==
    LET count_of_tiles == SumFrom(s.tiles, 0)
    IN  IF count_of_tiles > 15
        THEN [raised |-> TRUE, value |-> 0, self |-> s]
        ELSE LET s1 == RemoveCharacterTiles(s, count_of_tiles)
                 init_mentsu == FloorDiv3(14 - count_of_tiles)
                 s2 == Scan(s1, init_mentsu)
             IN  Then(s2, LAMBDA done :
                 [raised |-> FALSE, value |-> done.min_shanten, self |-> done])

\* Faulty variant: the sets counted as already called are taken from a hand
\* of 13 tiles instead of 14.
Calculate_from_thirteen(s) ==
    LET count_of_tiles == SumFrom(s.tiles, 0)
    IN  IF count_of_tiles > 14
        THEN [raised |-> TRUE, value |-> 0, self |-> s]
        ELSE LET s1 == RemoveCharacterTiles(s, count_of_tiles)
                 init_mentsu == FloorDiv3(13 - count_of_tiles)
                 s2 == Scan(s1, init_mentsu)
             IN  Then(s2, LAMBDA done :
                 [raised |-> FALSE, value |-> done.min_shanten, self |-> done])

\* calculate(): [raised |-> TRUE/FALSE, value |-> the return value, self |->
\* the object as calculate leaves it].
Calculate(s) ==
    LET count_of_tiles == SumFrom(s.tiles, 0)
    IN  IF count_of_tiles > 14
        THEN [raised |-> TRUE, value |-> 0, self |-> s]
        ELSE LET s1 == RemoveCharacterTiles(s, count_of_tiles)
                 init_mentsu == FloorDiv3(14 - count_of_tiles)
                 s2 == Scan(s1, init_mentsu)
             IN  Then(s2, LAMBDA done :
                 [raised |-> FALSE, value |-> done.min_shanten, self |-> done])

calculate_shanten_for_regular_hand(tiles_34) == Calculate(RegularShantenInit(tiles_34))

\* min(shanten_results) for a non-empty list
RECURSIVE MinOfSeq(_)
MinOfSeq(results) ==
    IF Len(results) = 1
    THEN results[1]
    ELSE Min2(results[1], MinOfSeq(Tail(results)))

\* Faulty variant: use_chiitoitsu ignored, the chiitoitsu solver always asked.
calculate_shanten_always_chiitoitsu(tiles_34, use_chiitoitsu_arg, use_kokushi_arg) ==
    Then(calculate_shanten_for_regular_hand(tiles_34), LAMBDA regular :
    IF regular.raised
    THEN regular
    ELSE LET results0 == <<regular.value>>
             results1 == Append(results0, calculate_shanten_for_chiitoitsu_hand(tiles_34))
             results2 == IF use_kokushi_arg
                         THEN Append(results1, calculate_shanten_for_kokushi_hand(tiles_34))
                         ELSE results1
         IN  [raised |-> FALSE, value |-> MinOfSeq(results2), self |-> regular.self])

\* calculate_shanten: the regular solver runs first, so its ValueError
\* leaves before the other solvers are looked at.
calculate_shanten(tiles_34, use_chiitoitsu_arg, use_kokushi_arg) ==
    Then(calculate_shanten_for_regular_hand(tiles_34), LAMBDA regular :
    IF regular.raised
    THEN regular
    ELSE LET results0 == <<regular.value>>
             results1 == IF use_chiitoitsu_arg
                         THEN Append(results0, calculate_shanten_for_chiitoitsu_hand(tiles_34))
                         ELSE results0
             results2 == IF use_kokushi_arg
                         THEN Append(results1, calculate_shanten_for_kokushi_hand(tiles_34))
                         ELSE results1
         IN  [raised |-> FALSE, value |-> MinOfSeq(results2), self |-> regular.self])

\* ------------------------------------------------------------------------
\* constants.py : winds, dragons and red fives
\* ------------------------------------------------------------------------
EAST == 27

NORTH == 30

HAKU == 31

FIVE_RED_MAN == 16

FIVE_RED_PIN == 52

FIVE_RED_SOU == 88

AKA_DORAS == {FIVE_RED_MAN, FIVE_RED_PIN, FIVE_RED_SOU}

\* ------------------------------------------------------------------------
\* tile.py : class TilesConverter
\*
\* A str is a sequence of one-character strings, a list a sequence.  An
\* optional int (red: int | None) is the empty sequence for None and <<n>>
\* for n; an optional str that is None is the empty text, which `not string`
\* treats alike.  A function that can raise returns [raised, value].
\* ------------------------------------------------------------------------
DigitChars == <<"0", "1", "2", "3", "4", "5", "6", "7", "8", "9">>

\* int(ch) of a one-character string: the digit's value, or ValueError.
int(ch) ==
    IF \E d \in 0 .. 9 : DigitChars[d + 1] = ch
    THEN [raised |-> FALSE, value |-> CHOOSE d \in 0 .. 9 : DigitChars[d + 1] = ch]
    ELSE [raised |-> TRUE, value |-> 0]

\* str(n) of an integer: its decimal digits, "-" first when negative.
RECURSIVE str(_)
str(n) ==
    IF n < 0 THEN <<"-">> \o str(0 - n)
    ELSE IF n < 10 THEN <<DigitChars[n + 1]>>
    ELSE str(n \div 10) \o <<DigitChars[(n % 10) + 1]>>

\* sorted(tiles): ascending, repeats kept
RECURSIVE sorted(_)
sorted(tiles) ==
    IF tiles = <<>> THEN <<>>
    ELSE LET i == CHOOSE i \in 1 .. Len(tiles) :
                      \A j \in 1 .. Len(tiles) : tiles[i] <= tiles[j]
         IN  <<tiles[i]>> \o sorted(SubSeq(tiles, 1, i - 1) \o SubSeq(tiles, i + 1, Len(tiles)))

\* "".join(parts)
RECURSIVE join(_)
join(parts) == IF parts = <<>> THEN <<>> ELSE Head(parts) \o join(Tail(parts))

\* words() of to_one_line_string
words(suits, red_five, suffix, print_aka_dora) ==
    IF suits = <<>> THEN <<>>
    ELSE join([k \in 1 .. Len(suits) |->
                  IF suits[k] = red_five /\ print_aka_dora
                  THEN <<"0">>
                  ELSE str((suits[k] \div 4) + 1)]) \o <<suffix>>

to_one_line_string(tiles0, print_aka_dora) ==
    LET tiles == sorted(tiles0)
        man == SelectSeq(tiles, LAMBDA t : t < 36)
        pin0 == SelectSeq(tiles, LAMBDA t : 36 <= t /\ t < 72)
        sou0 == SelectSeq(tiles, LAMBDA t : 72 <= t /\ t < 108)
        honors0 == SelectSeq(tiles, LAMBDA t : t >= 108)
        pin == [k \in 1 .. Len(pin0) |-> pin0[k] - 36]
        sou == [k \in 1 .. Len(sou0) |-> sou0[k] - 72]
        honors == [k \in 1 .. Len(honors0) |-> honors0[k] - 108]
    IN  words(man, FIVE_RED_MAN, "m", print_aka_dora)
            \o words(pin, FIVE_RED_PIN - 36, "p", print_aka_dora)
            \o words(sou, FIVE_RED_SOU - 72, "s", print_aka_dora)
            \o words(honors, -1 - 108, "z", print_aka_dora)

\* The loop of to_34_array from the k-th tile on.  results[tile // 4] with a
\* negative index counts from the end of the list; an index outside the
\* list is IndexError.
RECURSIVE to_34_from(_, _, _)
to_34_from(tiles, k, results) ==
    IF k > Len(tiles) THEN [raised |-> FALSE, value |-> results]
    ELSE LET index == tiles[k] \div 4
             at == IF index < 0 THEN index + 34 ELSE index
         IN  IF at \notin 0 .. 33
             THEN [raised |-> TRUE, value |-> results]
             ELSE to_34_from(tiles, k + 1, [results EXCEPT ![at] = @ + 1])

to_34_array(tiles) == to_34_from(tiles, 1, [t \in TileTypes |-> 0])

\* The loop of to_136_array from type `index` on; range(count) is empty for
\* a count below 1.
RECURSIVE to_136_from(_, _)
to_136_from(tiles, index) ==
    IF index > 33 THEN <<>>
    ELSE [i \in 1 .. tiles[index] |-> index * 4 + (i - 1)] \o to_136_from(tiles, index + 1)

\* Faulty variant: the copies of a type are numbered from 1, so that n tiles
\* of type t are 4t+1 .. 4t+n.
RECURSIVE to_136_from_second_copy(_, _)
to_136_from_second_copy(tiles, index) ==
    IF index > 33 THEN <<>>
    ELSE [i \in 1 .. tiles[index] |-> index * 4 + i]
             \o to_136_from_second_copy(tiles, index + 1)

to_136_array_from_second_copy(tiles) == to_136_from_second_copy(tiles, 0)

to_136_array(tiles) == to_136_from(tiles, 0)

\* The loop of _split_string from the k-th character on.  keys holds the
\* Counter's increments: counts[tile] is the number of times tile was counted.
RECURSIVE split_from(_, _, _, _, _, _)
split_from(string, offset, red, k, keys, result) ==
    IF k > Len(string) THEN [raised |-> FALSE, value |-> result]
    ELSE IF string[k] \in {"r", "0"} /\ red # <<>>
    THEN split_from(string, offset, red, k + 1, keys, Append(result, red[1]))
    ELSE LET n == int(string[k])
         IN  IF n.raised THEN [raised |-> TRUE, value |-> <<>>]
             ELSE LET tile0 == offset + (n.value - 1) * 4
                      tile == IF red # <<>> /\ tile0 = red[1] THEN tile0 + 1 ELSE tile0
                      count_of_tiles == Cardinality({j \in 1 .. Len(keys) : keys[j] = tile})
                  IN  split_from(string, offset, red, k + 1, Append(keys, tile),
                                 Append(result, tile + count_of_tiles))

_split_string(string, offset, red) ==
    IF string = <<>> THEN [raised |-> FALSE, value |-> <<>>]
    ELSE split_from(string, offset, red, 1, <<>>, <<>>)

\* Faulty variant: the suits are emitted in the order of the arguments, sou
\* first.
string_to_136_array_in_argument_order(sou, pin, man, honors, has_aka_dora) ==
    LET m == _split_string(man, 0, IF has_aka_dora THEN <<FIVE_RED_MAN>> ELSE <<>>)
        p == _split_string(pin, 36, IF has_aka_dora THEN <<FIVE_RED_PIN>> ELSE <<>>)
        s == _split_string(sou, 72, IF has_aka_dora THEN <<FIVE_RED_SOU>> ELSE <<>>)
        h == _split_string(honors, 108, <<>>)
    IN  IF m.raised \/ p.raised \/ s.raised \/ h.raised
        THEN [raised |-> TRUE, value |-> <<>>]
        ELSE [raised |-> FALSE, value |-> s.value \o p.value \o m.value \o h.value]

string_to_136_array(sou, pin, man, honors, has_aka_dora) ==
    LET m == _split_string(man, 0, IF has_aka_dora THEN <<FIVE_RED_MAN>> ELSE <<>>)
        p == _split_string(pin, 36, IF has_aka_dora THEN <<FIVE_RED_PIN>> ELSE <<>>)
        s == _split_string(sou, 72, IF has_aka_dora THEN <<FIVE_RED_SOU>> ELSE <<>>)
        h == _split_string(honors, 108, <<>>)
    IN  IF m.raised \/ p.raised \/ s.raised \/ h.raised
        THEN [raised |-> TRUE, value |-> <<>>]
        ELSE [raised |-> FALSE, value |-> m.value \o p.value \o s.value \o h.value]

\* The loop of one_line_string_to_136_array from index on; acc holds sou,
\* pin, man, honors and split_start.  string[split_start:index] is
\* SubSeq(string, split_start + 1, index).
RECURSIVE one_line_scan(_, _, _)
one_line_scan(string, index, acc) ==
    IF index >= Len(string) THEN acc
    ELSE LET i == string[index + 1]
             piece == SubSeq(string, acc.split_start + 1, index)
             next == IF i = "m"
                     THEN [acc EXCEPT !.man = @ \o piece, !.split_start = index + 1]
                     ELSE IF i = "p"
                     THEN [acc EXCEPT !.pin = @ \o piece, !.split_start = index + 1]
                     ELSE IF i = "s"
                     THEN [acc EXCEPT !.sou = @ \o piece, !.split_start = index + 1]
                     ELSE IF i \in {"z", "h"}
                     THEN [acc EXCEPT !.honors = @ \o piece, !.split_start = index + 1]
                     ELSE acc
         IN  one_line_scan(string, index + 1, next)

one_line_string_to_136_array(string, has_aka_dora) ==
    LET acc == one_line_scan(string, 0,
                   [sou |-> <<>>, pin |-> <<>>, man |-> <<>>, honors |-> <<>>,
                    split_start |-> 0])
    IN  string_to_136_array(acc.sou, acc.pin, acc.man, acc.honors, has_aka_dora)

\* ------------------------------------------------------------------------
\* utils.py : dora counting.  A dict is a function on the set of its keys.
\* ------------------------------------------------------------------------
is_aka_dora(tile_136, aka_enabled) ==
    IF ~aka_enabled THEN FALSE ELSE tile_136 \in AKA_DORAS

\* The loop of plus_dora from the k-th indicator on.
RECURSIVE plus_dora_from(_, _, _, _)
plus_dora_from(tile_index, dora_indicators_136, k, dora_count) ==
    IF k > Len(dora_indicators_136) THEN dora_count
    ELSE LET dora0 == dora_indicators_136[k] \div 4
         IN  IF tile_index < EAST
             THEN LET dora == IF dora0 = 8 THEN -1
                              ELSE IF dora0 = 17 THEN 8
                              ELSE IF dora0 = 26 THEN 17
                              ELSE dora0
                  IN  plus_dora_from(tile_index, dora_indicators_136, k + 1,
                                     IF tile_index = dora + 1 THEN dora_count + 1
                                     ELSE dora_count)
             ELSE IF dora0 < EAST
             THEN plus_dora_from(tile_index, dora_indicators_136, k + 1, dora_count)
             ELSE LET dora1 == dora0 - 9 * 3
                      tile_index_temp == tile_index - 9 * 3
                      dora2 == IF dora1 = 3 THEN -1 ELSE dora1
                      dora == IF dora2 = 6 THEN 3 ELSE dora2
                  IN  plus_dora_from(tile_index, dora_indicators_136, k + 1,
                                     IF tile_index_temp = dora + 1 THEN dora_count + 1
                                     ELSE dora_count)

\* Faulty variant: the dragons wrap at Hatsu, as the code's comment says,
\* instead of at Chun.
RECURSIVE plus_dora_from_wrapping_at_hatsu(_, _, _, _)
plus_dora_from_wrapping_at_hatsu(tile_index, dora_indicators_136, k, dora_count) ==
    IF k > Len(dora_indicators_136) THEN dora_count
    ELSE LET dora0 == dora_indicators_136[k] \div 4
         IN  IF tile_index < EAST
             THEN LET dora == IF dora0 = 8 THEN -1
                              ELSE IF dora0 = 17 THEN 8
                              ELSE IF dora0 = 26 THEN 17
                              ELSE dora0
                  IN  plus_dora_from_wrapping_at_hatsu(tile_index, dora_indicators_136, k + 1,
                                     IF tile_index = dora + 1 THEN dora_count + 1
                                     ELSE dora_count)
             ELSE IF dora0 < EAST
             THEN plus_dora_from_wrapping_at_hatsu(tile_index, dora_indicators_136, k + 1,
                                                   dora_count)
             ELSE LET dora1 == dora0 - 9 * 3
                      tile_index_temp == tile_index - 9 * 3
                      dora2 == IF dora1 = 3 THEN -1 ELSE dora1
                      dora == IF dora2 = 5 THEN 3 ELSE dora2
                  IN  plus_dora_from_wrapping_at_hatsu(tile_index, dora_indicators_136, k + 1,
                                     IF tile_index_temp = dora + 1 THEN dora_count + 1
                                     ELSE dora_count)

plus_dora_wrapping_at_hatsu(tile_136, dora_indicators_136, add_aka_dora) ==
    plus_dora_from_wrapping_at_hatsu(tile_136 \div 4, dora_indicators_136, 1,
        IF add_aka_dora /\ is_aka_dora(tile_136, TRUE) THEN 1 ELSE 0)

plus_dora(tile_136, dora_indicators_136, add_aka_dora) ==
    plus_dora_from(tile_136 \div 4, dora_indicators_136, 1,
        IF add_aka_dora /\ is_aka_dora(tile_136, TRUE) THEN 1 ELSE 0)

\* Faulty variant: the seven honors wrap as one group.
_indicator_to_dora_34_honors_one_group(indicator_34) ==
    IF indicator_34 < EAST
    THEN LET suit_base == (indicator_34 \div 9) * 9
         IN  suit_base + ((indicator_34 - suit_base + 1) % 9)
    ELSE EAST + ((indicator_34 - EAST + 1) % 7)

_indicator_to_dora_34(indicator_34) ==
    IF indicator_34 < EAST
    THEN LET suit_base == (indicator_34 \div 9) * 9
         IN  suit_base + ((indicator_34 - suit_base + 1) % 9)
    ELSE IF indicator_34 <= NORTH
    THEN EAST + ((indicator_34 - EAST + 1) % 4)
    ELSE HAKU + ((indicator_34 - HAKU + 1) % 3)

\* dora_map.get(key, 0)
DictGet(dict, key) == IF key \in DOMAIN dict THEN dict[key] ELSE 0

\* dora_map[key] = value
DictSet(dict, key, value) ==
    [x \in DOMAIN dict \cup {key} |-> IF x = key THEN value ELSE dict[x]]

EmptyDict == [x \in {} |-> 0]

\* The loop of build_dora_count_map from the k-th indicator on.
RECURSIVE build_dora_count_map_from(_, _, _)
build_dora_count_map_from(dora_indicators_136, k, dora_map) ==
    IF k > Len(dora_indicators_136) THEN dora_map
    ELSE LET dora_34 == _indicator_to_dora_34(dora_indicators_136[k] \div 4)
         IN  build_dora_count_map_from(dora_indicators_136, k + 1,
                 DictSet(dora_map, dora_34, DictGet(dora_map, dora_34) + 1))

\* Faulty variant: a dora type is entered in the map once, however many
\* indicators point to it.
build_dora_count_map_without_repeats(dora_indicators_136) ==
    [x \in {_indicator_to_dora_34(dora_indicators_136[k] \div 4) :
                k \in 1 .. Len(dora_indicators_136)} |-> 1]

build_dora_count_map(dora_indicators_136) ==
    build_dora_count_map_from(dora_indicators_136, 1, EmptyDict)

\* The loop of count_dora_for_hand over the items not yet visited.
RECURSIVE count_dora_over(_, _, _)
count_dora_over(tiles_34, dora_count_map, keys) ==
    IF keys = {} THEN 0
    ELSE LET tile_34 == CHOOSE x \in keys : TRUE
         IN  tiles_34[tile_34] * dora_count_map[tile_34]
                 + count_dora_over(tiles_34, dora_count_map, keys \ {tile_34})

count_dora_for_hand(tiles_34, dora_count_map) ==
    count_dora_over(tiles_34, dora_count_map, DOMAIN dora_count_map)

\* ------------------------------------------------------------------------
\* meld.py : class Meld
\* ------------------------------------------------------------------------
\* A Meld object is the record of its __dict__.  None is <<>> and a value v
\* of an optional attribute is <<v>>; the entry "tiles_34", which
\* cached_property writes on the first read, is <<>> while it is absent and
\* <<list>> once it is present.
BareObject ==
    [ type |-> <<>>, tiles |-> <<>>, opened |-> FALSE, called_tile |-> <<>>,
      who |-> <<>>, from_who |-> <<>>, tiles_34 |-> <<>> ]

\* Faulty variant: the cached list survives a reassignment of tiles.
__setattr__keeping_cache(self, name, value) ==
    [self EXCEPT ![name] = value]

\* Meld.__setattr__(name, value): the assignment, then the cache entry is
\* deleted when tiles was assigned and the entry is present.
__setattr__(self, name, value) ==
    Then([self EXCEPT ![name] = value], LAMBDA assigned :
    IF name = "tiles" /\ assigned.tiles_34 # <<>>
    THEN [assigned EXCEPT !.tiles_34 = <<>>]
    ELSE assigned)

\* Meld.__init__: six assignments, each through __setattr__; tiles is
\* tuple(tiles) if tiles else ().
__init__(meld_type, tiles, opened, called_tile, who, from_who) ==
    __setattr__(
    __setattr__(
    __setattr__(
    __setattr__(
    __setattr__(
    __setattr__(BareObject, "type", meld_type),
                "tiles", IF tiles # <<>> THEN tiles ELSE <<>>),
                "opened", opened),
                "called_tile", called_tile),
                "who", who),
                "from_who", from_who)

\* [x // 4 for x in self.tiles]
tiles_34_body(self) == [k \in 1 .. Len(self.tiles) |-> self.tiles[k] \div 4]

\* Reading meld.tiles_34 through cached_property: the entry of __dict__ when
\* it is present, else the body's value, which is stored before it is
\* returned.  [value |-> what the read returns, self |-> the object after].
tiles_34_get(self) ==
    IF self.tiles_34 # <<>>
    THEN [value |-> self.tiles_34[1], self |-> self]
    ELSE Then(tiles_34_body(self), LAMBDA val :
         [value |-> val, self |-> [self EXCEPT !.tiles_34 = <<val>>]])

\* ------------------------------------------------------------------------
\* The caller: it owns a 34-count array, changes it one tile at a time and
\* calls the public entry points of class Shanten on it.
\* ------------------------------------------------------------------------
VARIABLES
    tiles_34,        \* the caller's 34-count array
    draws,           \* how many tiles or characters the caller has added to its input
    pc,              \* "ready" | "returned" | "raised" (ValueError)
    fn,              \* the entry point of the last call
    use_chiitoitsu,  \* arguments of the last calculate_shanten call
    use_kokushi,
    ret,             \* the value the last call returned
    solver,          \* the _RegularShanten object of the last call
    tiles_136,       \* the caller's collection of 136-format ids
    string,          \* the caller's text, a sequence of characters
    kw,              \* the keyword the text was passed as or the attribute assigned, or "none"
    aka,             \* has_aka_dora / print_aka_dora / add_aka_dora of the last call
    tile_arg,        \* the single tile (136-format id or 34-format type) of the last call
    frames,          \* the activations of _RegularShanten._run, the innermost last
    touched,         \* the positions next to depth that the last step of _run read or wrote
    meld             \* the caller's Meld object

shanten_vars == <<tiles_34, draws, pc, fn, use_chiitoitsu, use_kokushi, ret, solver>>

codec_vars == <<tiles_136, string, kw, aka, tile_arg>>

search_vars == <<frames, touched>>

vars == <<tiles_34, draws, pc, fn, use_chiitoitsu, use_kokushi, ret, solver,
          tiles_136, string, kw, aka, tile_arg, frames, touched, meld>>

\* Bounds of the model.
MaxDraws == 3

\* The tile types the caller adds: 1m 2m 3m, 9m and 1p 2p on both sides of
\* the man/pin border, East and Chun.
DrawTypes == {0, 1, 2, 8, 9, 10, 27, 33}

Hand(f) == [t \in TileTypes |-> IF t \in DOMAIN f THEN f[t] ELSE 0]

EmptyHand == [t \in TileTypes |-> 0]

\* one of each terminal and honor (13 tiles)
OrphansHand == [t \in TileTypes |-> IF t \in TERMINAL_AND_HONOR_INDICES THEN 1 ELSE 0]

\* 11 22 33m and three honor pairs (12 tiles)
SixPairsHand == [t \in TileTypes |-> IF t \in {0, 1, 2, 28, 29, 30} THEN 2 ELSE 0]

\* 112233m and a dragon pair (8 tiles)
TwoRunsHand == Hand((0 :> 2) @@ (1 :> 2) @@ (2 :> 2) @@ (31 :> 2))

\* three honor triplets and a dragon pair (11 tiles)
HonorSetsHand == Hand((28 :> 3) @@ (29 :> 3) @@ (30 :> 3) @@ (31 :> 2))

\* 1111m and three honor triplets (13 tiles)
ManQuadHand == Hand((0 :> 4) @@ (28 :> 3) @@ (29 :> 3) @@ (30 :> 3))

\* EEEE, 111m 333m and 9m (11 tiles)
HonorQuadHand == Hand((27 :> 4) @@ (0 :> 3) @@ (2 :> 3) @@ (8 :> 1))

\* EEEE SSSS and 111m (11 tiles)
TwoHonorQuadsHand == Hand((27 :> 4) @@ (28 :> 4) @@ (0 :> 3))

\* 1112345678999p (13 tiles)
NineGatesHand == [t \in TileTypes |-> IF t \in {9, 17} THEN 3
                                      ELSE IF t \in 10 .. 16 THEN 1 ELSE 0]

\* arrays no hand has: five 3m; a negative entry
FiveCopiesHand == Hand((2 :> 5) @@ (1 :> 1))

NegativeHand == Hand((1 :> (0 - 1)) @@ (0 :> 1) @@ (31 :> 2))

SeedHands ==
    { EmptyHand, OrphansHand, SixPairsHand, TwoRunsHand, HonorSetsHand, ManQuadHand,
      HonorQuadHand, TwoHonorQuadsHand, NineGatesHand, FiveCopiesHand,
      NegativeHand }

NoSolver == RegularShantenInit(EmptyHand)

\* No collection, text or flag has been given to the codec or the dora functions.
CodecIdle ==
    /\ tiles_136 = <<>>
    /\ string = <<>>
    /\ kw = "none"
    /\ aka = FALSE
    /\ tile_arg = 0

\* No search is under way.
SearchIdle ==
    /\ frames = <<>>
    /\ touched = {}

\* The caller's meld is Meld().
MeldIdle == meld = __init__(<<>>, <<>>, TRUE, <<>>, <<>>, <<>>)

Init ==
    /\ tiles_34 \in SeedHands
    /\ draws = 0
    /\ pc = "ready"
    /\ fn = "none"
    /\ use_chiitoitsu = FALSE
    /\ use_kokushi = FALSE
    /\ ret = 0
    /\ solver = NoSolver
    /\ CodecIdle
    /\ SearchIdle
    /\ MeldIdle

\* The caller adds one tile of type t to its array.
Draw(t) ==
    /\ draws < MaxDraws
    /\ tiles_34' = [tiles_34 EXCEPT ![t] = @ + 1]
    /\ draws' = draws + 1
    /\ pc' = "ready"
    /\ fn' = "none"
    /\ use_chiitoitsu' = FALSE
    /\ use_kokushi' = FALSE
    /\ ret' = 0
    /\ solver' = NoSolver
    /\ kw' = "none"
    /\ aka' = FALSE
    /\ UNCHANGED <<tiles_136, string, tile_arg>>
    /\ UNCHANGED <<frames, touched, meld>>

\* Shanten.calculate_shanten(tiles_34, c, k)
CallShanten(c, k) ==
    /\ pc = "ready"
    /\ \E out \in {calculate_shanten(tiles_34, c, k)} :
           /\ pc' = IF out.raised THEN "raised" ELSE "returned"
           /\ ret' = out.value
           /\ solver' = out.self
    /\ fn' = "calculate_shanten"
    /\ use_chiitoitsu' = c
    /\ use_kokushi' = k
    /\ UNCHANGED <<tiles_34, draws>>
    /\ UNCHANGED codec_vars
    /\ UNCHANGED <<frames, touched, meld>>

\* Shanten.calculate_shanten_for_regular_hand(tiles_34)
CallRegular ==
    /\ pc = "ready"
    /\ \E out \in {calculate_shanten_for_regular_hand(tiles_34)} :
           /\ pc' = IF out.raised THEN "raised" ELSE "returned"
           /\ ret' = out.value
           /\ solver' = out.self
    /\ fn' = "regular"
    /\ UNCHANGED <<tiles_34, draws, use_chiitoitsu, use_kokushi>>
    /\ UNCHANGED codec_vars
    /\ UNCHANGED <<frames, touched, meld>>

\* Shanten.calculate_shanten_for_chiitoitsu_hand(tiles_34)
CallChiitoitsu ==
    /\ pc = "ready"
    /\ pc' = "returned"
    /\ ret' = calculate_shanten_for_chiitoitsu_hand(tiles_34)
    /\ fn' = "chiitoitsu"
    /\ UNCHANGED <<tiles_34, draws, use_chiitoitsu, use_kokushi, solver>>
    /\ UNCHANGED codec_vars
    /\ UNCHANGED <<frames, touched, meld>>

\* Shanten.calculate_shanten_for_kokushi_hand(tiles_34)
CallKokushi ==
    /\ pc = "ready"
    /\ pc' = "returned"
    /\ ret' = calculate_shanten_for_kokushi_hand(tiles_34)
    /\ fn' = "kokushi"
    /\ UNCHANGED <<tiles_34, draws, use_chiitoitsu, use_kokushi, solver>>
    /\ UNCHANGED codec_vars
    /\ UNCHANGED <<frames, touched, meld>>

Next ==
    \/ \E t \in DrawTypes : Draw(t)
    \/ \E c \in BOOLEAN, k \in BOOLEAN : CallShanten(c, k)
    \/ CallRegular
    \/ CallChiitoitsu
    \/ CallKokushi

Spec == Init /\ [][Next]_vars

\* The caller starts from n tiles of one type t and nothing else.
Copies(t, n) == [u \in TileTypes |-> IF u = t THEN n ELSE 0]

SingleTypeHands == {Copies(t, n) : t \in TileTypes, n \in {2, 3}}

InitSingleType ==
    /\ tiles_34 \in SingleTypeHands
    /\ draws = 0
    /\ pc = "ready"
    /\ fn = "none"
    /\ use_chiitoitsu = FALSE
    /\ use_kokushi = FALSE
    /\ ret = 0
    /\ solver = NoSolver
    /\ CodecIdle
    /\ SearchIdle
    /\ MeldIdle

SpecSingleType == InitSingleType /\ [][Next]_vars

\* ------------------------------------------------------------------------
\* The caller of TilesConverter's array conversions: it holds either a
\* 34-count array, changed one tile at a time, or a collection of 136-format
\* ids, built one id at a time.
\* ------------------------------------------------------------------------
MaxIds == 4

\* 1m (three of its copies), the red 5m, a plain 5p and the last Chun
IdPool == {0, 1, 3, 16, 53, 135}

InitCodec ==
    /\ tiles_34 \in SeedHands
    /\ draws = 0
    /\ pc = "ready"
    /\ fn = "none"
    /\ use_chiitoitsu = FALSE
    /\ use_kokushi = FALSE
    /\ ret = 0
    /\ solver = NoSolver
    /\ CodecIdle
    /\ SearchIdle
    /\ MeldIdle

\* The caller adds the id i to its collection.
TakeTile(i) ==
    /\ tiles_34 = EmptyHand
    /\ draws = 0
    /\ Len(tiles_136) < MaxIds
    /\ tiles_136' = Append(tiles_136, i)
    /\ pc' = "ready"
    /\ fn' = "none"
    /\ ret' = 0
    /\ kw' = "none"
    /\ aka' = FALSE
    /\ UNCHANGED <<tiles_34, draws, use_chiitoitsu, use_kokushi, solver, string, tile_arg>>
    /\ UNCHANGED <<frames, touched, meld>>

\* The caller of the array conversions adds a tile to its count array.
DrawCount(t) ==
    /\ tiles_136 = <<>>
    /\ Draw(t)

\* TilesConverter.to_34_array(tiles_136)
CallTo34Array ==
    /\ pc = "ready"
    /\ \E out \in {to_34_array(tiles_136)} :
           /\ pc' = IF out.raised THEN "raised" ELSE "returned"
           /\ ret' = out.value
    /\ fn' = "to_34_array"
    /\ UNCHANGED <<tiles_34, draws, use_chiitoitsu, use_kokushi, solver>>
    /\ UNCHANGED codec_vars
    /\ UNCHANGED <<frames, touched, meld>>

\* TilesConverter.to_136_array(tiles_34)
CallTo136Array ==
    /\ pc = "ready"
    /\ pc' = "returned"
    /\ ret' = to_136_array(tiles_34)
    /\ fn' = "to_136_array"
    /\ UNCHANGED <<tiles_34, draws, use_chiitoitsu, use_kokushi, solver>>
    /\ UNCHANGED codec_vars
    /\ UNCHANGED <<frames, touched, meld>>

\* TilesConverter.to_one_line_string(tiles_136, print_aka_dora = b)
CallToOneLineString(b) ==
    /\ pc = "ready"
    /\ pc' = "returned"
    /\ ret' = to_one_line_string(tiles_136, b)
    /\ fn' = "to_one_line_string"
    /\ aka' = b
    /\ UNCHANGED <<tiles_34, draws, use_chiitoitsu, use_kokushi, solver, tiles_136, string,
                   kw, tile_arg>>
    /\ UNCHANGED <<frames, touched, meld>>

NextCodec ==
    \/ \E i \in IdPool : TakeTile(i)
    \/ \E t \in DrawTypes : DrawCount(t)
    \/ CallTo34Array
    \/ CallTo136Array
    \/ \E b \in BOOLEAN : CallToOneLineString(b)

SpecCodec == InitCodec /\ [][NextCodec]_vars

\* ------------------------------------------------------------------------
\* The caller of TilesConverter's parsers: it holds a text, extended one
\* character at a time, and passes it whole to one_line_string_to_136_array
\* or as one of the suit arguments of string_to_136_array.
\* ------------------------------------------------------------------------
MaxTyped == 2

\* digits, both red-five spellings, the suit letters and a foreign letter
Alphabet == {"1", "5", "9", "0", "r", "m", "p", "s", "z", "h", "x"}

SeedStrings ==
    { <<>>,
      <<"5", "5", "5">>,
      <<"0", "5", "5">>,
      <<"1", "p">>,
      <<"4", "0", "6", "s", "7">>,
      <<"1", "m", "1">> }

InitParse ==
    /\ tiles_34 = EmptyHand
    /\ draws = 0
    /\ pc = "ready"
    /\ fn = "none"
    /\ use_chiitoitsu = FALSE
    /\ use_kokushi = FALSE
    /\ ret = 0
    /\ solver = NoSolver
    /\ tiles_136 = <<>>
    /\ string \in SeedStrings
    /\ kw = "none"
    /\ aka = FALSE
    /\ tile_arg = 0
    /\ SearchIdle
    /\ MeldIdle

\* The caller appends the character ch to its text.
Type(ch) ==
    /\ draws < MaxTyped
    /\ string' = Append(string, ch)
    /\ draws' = draws + 1
    /\ pc' = "ready"
    /\ fn' = "none"
    /\ ret' = 0
    /\ kw' = "none"
    /\ aka' = FALSE
    /\ UNCHANGED <<tiles_34, use_chiitoitsu, use_kokushi, solver, tiles_136, tile_arg>>
    /\ UNCHANGED <<frames, touched, meld>>

\* TilesConverter.one_line_string_to_136_array(string, has_aka_dora = b)
CallOneLineStringTo136Array(b) ==
    /\ pc = "ready"
    /\ \E out \in {one_line_string_to_136_array(string, b)} :
           /\ pc' = IF out.raised THEN "raised" ELSE "returned"
           /\ ret' = out.value
    /\ fn' = "one_line_string_to_136_array"
    /\ aka' = b
    /\ UNCHANGED <<tiles_34, draws, use_chiitoitsu, use_kokushi, solver, tiles_136, string,
                   kw, tile_arg>>
    /\ UNCHANGED <<frames, touched, meld>>

SuitKeywords == {"sou", "pin", "man", "honors"}

\* TilesConverter.string_to_136_array(k = string, has_aka_dora = b), the
\* other suit arguments left at None.
CallStringTo136Array(k, b) ==
    /\ pc = "ready"
    /\ \E out \in {string_to_136_array(IF k = "sou" THEN string ELSE <<>>,
                                       IF k = "pin" THEN string ELSE <<>>,
                                       IF k = "man" THEN string ELSE <<>>,
                                       IF k = "honors" THEN string ELSE <<>>,
                                       b)} :
           /\ pc' = IF out.raised THEN "raised" ELSE "returned"
           /\ ret' = out.value
    /\ fn' = "string_to_136_array"
    /\ kw' = k
    /\ aka' = b
    /\ UNCHANGED <<tiles_34, draws, use_chiitoitsu, use_kokushi, solver, tiles_136, string,
                   tile_arg>>
    /\ UNCHANGED <<frames, touched, meld>>

NextParse ==
    \/ \E ch \in Alphabet : Type(ch)
    \/ \E b \in BOOLEAN : CallOneLineStringTo136Array(b)
    \/ \E k \in SuitKeywords, b \in BOOLEAN : CallStringTo136Array(k, b)

SpecParse == InitParse /\ [][NextParse]_vars

\* ------------------------------------------------------------------------
\* The caller of the dora functions: it holds a hand as a 34-count array and
\* the dora indicators revealed so far, as 136-format ids.
\* ------------------------------------------------------------------------
MaxIndicators == 2

\* 1m (two copies), 4m, 9m, 9p, 9s, East, North and Chun
IndicatorPool == {0, 1, 12, 35, 71, 107, 110, 120, 135}

DoraHands == {OrphansHand, SixPairsHand, NineGatesHand}

InitDora ==
    /\ tiles_34 \in DoraHands
    /\ draws = 0
    /\ pc = "ready"
    /\ fn = "none"
    /\ use_chiitoitsu = FALSE
    /\ use_kokushi = FALSE
    /\ ret = 0
    /\ solver = NoSolver
    /\ CodecIdle
    /\ SearchIdle
    /\ MeldIdle

\* One more dora indicator is revealed.
Reveal(i) ==
    /\ Len(tiles_136) < MaxIndicators
    /\ tiles_136' = Append(tiles_136, i)
    /\ pc' = "ready"
    /\ fn' = "none"
    /\ ret' = 0
    /\ aka' = FALSE
    /\ tile_arg' = 0
    /\ UNCHANGED <<tiles_34, draws, use_chiitoitsu, use_kokushi, solver, string, kw>>
    /\ UNCHANGED <<frames, touched, meld>>

\* _indicator_to_dora_34(t)
CallIndicatorToDora(t) ==
    /\ pc = "ready"
    /\ pc' = "returned"
    /\ ret' = _indicator_to_dora_34(t)
    /\ fn' = "_indicator_to_dora_34"
    /\ tile_arg' = t
    /\ UNCHANGED <<tiles_34, draws, use_chiitoitsu, use_kokushi, solver, tiles_136, string,
                   kw, aka>>
    /\ UNCHANGED <<frames, touched, meld>>

\* build_dora_count_map(tiles_136)
CallBuildDoraCountMap ==
    /\ pc = "ready"
    /\ pc' = "returned"
    /\ ret' = build_dora_count_map(tiles_136)
    /\ fn' = "build_dora_count_map"
    /\ UNCHANGED <<tiles_34, draws, use_chiitoitsu, use_kokushi, solver>>
    /\ UNCHANGED codec_vars
    /\ UNCHANGED <<frames, touched, meld>>

\* count_dora_for_hand(tiles_34, build_dora_count_map(tiles_136))
CallCountDoraForHand ==
    /\ pc = "ready"
    /\ pc' = "returned"
    /\ ret' = count_dora_for_hand(tiles_34, build_dora_count_map(tiles_136))
    /\ fn' = "count_dora_for_hand"
    /\ UNCHANGED <<tiles_34, draws, use_chiitoitsu, use_kokushi, solver>>
    /\ UNCHANGED codec_vars
    /\ UNCHANGED <<frames, touched, meld>>

\* plus_dora(x, tiles_136, add_aka_dora = b)
CallPlusDora(x, b) ==
    /\ pc = "ready"
    /\ pc' = "returned"
    /\ ret' = plus_dora(x, tiles_136, b)
    /\ fn' = "plus_dora"
    /\ tile_arg' = x
    /\ aka' = b
    /\ UNCHANGED <<tiles_34, draws, use_chiitoitsu, use_kokushi, solver, tiles_136, string,
                   kw>>
    /\ UNCHANGED <<frames, touched, meld>>

NextDora ==
    \/ \E i \in IndicatorPool : Reveal(i)
    \/ \E t \in TileTypes : CallIndicatorToDora(t)
    \/ CallBuildDoraCountMap
    \/ CallCountDoraForHand
    \/ \E x \in 0 .. 135, b \in BOOLEAN : CallPlusDora(x, b)

SpecDora == InitDora /\ [][NextDora]_vars

\* ------------------------------------------------------------------------
\* _RegularShanten._run statement by statement (shanten.py 176-296).  An
\* activation of _run is a frame [depth, i, line, entry]: its local
\* variables, the line of the statement it executes next, and (for the
\* properties) the object as it was when the activation was entered.  A
\* step executes one statement that changes the object or the stack and
\* then evaluates the conditions up to the next such statement.
\* ------------------------------------------------------------------------
\* the lines of _run that call each _increase_ / _decrease_ method
LinesOf ==
    [ increase_set |-> {196, 234},
      decrease_set |-> {214, 236},
      increase_pair |-> {215, 237, 264},
      decrease_pair |-> {231, 254, 266},
      increase_syuntsu |-> {199, 219, 240, 257, 258, 268, 274, 284},
      decrease_syuntsu |-> {201, 221, 242, 260, 261, 270, 276, 286},
      increase_tatsu_second |-> {202, 222, 245, 287},
      decrease_tatsu_second |-> {204, 224, 247, 289},
      increase_tatsu_first |-> {207, 227, 250, 292},
      decrease_tatsu_first |-> {209, 229, 252, 294},
      increase_isolated_tile |-> {211, 278},
      decrease_isolated_tile |-> {213, 280} ]

\* the lines that call self._run
CallLines ==
    {200, 203, 208, 212, 220, 223, 228, 235, 241, 246, 251, 259, 265, 269, 275, 279,
     285, 288, 293}

StatementLines == UNION {LinesOf[m] : m \in DOMAIN LinesOf}

\* The statement on the line, applied to the object.
Execute(line, s, depth) ==
    CASE line \in LinesOf.increase_set -> IncreaseSet(s, depth)
      [] line \in LinesOf.decrease_set -> DecreaseSet(s, depth)
      [] line \in LinesOf.increase_pair -> IncreasePair(s, depth)
      [] line \in LinesOf.decrease_pair -> DecreasePair(s, depth)
      [] line \in LinesOf.increase_syuntsu -> IncreaseSyuntsu(s, depth)
      [] line \in LinesOf.decrease_syuntsu -> DecreaseSyuntsu(s, depth)
      [] line \in LinesOf.increase_tatsu_second -> IncreaseTatsuSecond(s, depth)
      [] line \in LinesOf.decrease_tatsu_second -> DecreaseTatsuSecond(s, depth)
      [] line \in LinesOf.increase_tatsu_first -> IncreaseTatsuFirst(s, depth)
      [] line \in LinesOf.decrease_tatsu_first -> DecreaseTatsuFirst(s, depth)
      [] line \in LinesOf.increase_isolated_tile -> IncreaseIsolatedTile(s, depth)
      [] line \in LinesOf.decrease_isolated_tile -> DecreaseIsolatedTile(s, depth)

\* The positions other than depth that the statement on the line writes.
Writes(line, depth) ==
    CASE line \in LinesOf.increase_syuntsu \cup LinesOf.decrease_syuntsu -> {depth + 1, depth + 2}
      [] line \in LinesOf.increase_tatsu_first \cup LinesOf.decrease_tatsu_first -> {depth + 1}
      [] line \in LinesOf.increase_tatsu_second \cup LinesOf.decrease_tatsu_second -> {depth + 2}
      [] OTHER -> {}

\* Faulty variant: the search of the same position starts again from 0.
CallDepth_restarting(line, depth) ==
    CASE line \in {220, 259, 269} -> 0
      [] line = 275 -> depth + 2
      [] OTHER -> depth + 1

\* The argument of the call of _run on the line.
CallDepth(line, depth) ==
    CASE line \in {220, 259, 269} -> depth
      [] line = 275 -> depth + 2
      [] OTHER -> depth + 1

\* The line control reaches when the statement on the line is done: the
\* next line, except at the end of a block.
After(line) ==
    CASE line \in {204, 209, 215, 224, 229, 231, 237, 247, 254, 261, 280, 289} -> line + 2
      [] line \in {242, 252} -> 254
      [] line = 270 -> 272
      [] line \in {276, 294} -> 296
      [] OTHER -> line + 1

\* The tests of self._tiles[depth] that open the four blocks of _run:
\* [count, then, else].
BlockTests ==
    (195 :> [count |-> 4, then |-> 196, else |-> 233])
        @@ (233 :> [count |-> 3, then |-> 234, else |-> 263])
        @@ (263 :> [count |-> 2, then |-> 264, else |-> 272])
        @@ (272 :> [count |-> 1, then |-> 273, else |-> 296])

\* The conditions on the neighbours of depth: i < limit and then the tests
\* of self._tiles[depth + off] from left to right ("set": non-zero, "two":
\* >= 2, "one": == 1, "not four": != 4); limit 9 stands for a line that
\* does not test i.  then / else: the line control goes to.
Test(off, what) == [off |-> off, what |-> what]

Conditions ==
    (197 :> [limit |-> 7, tests |-> <<Test(2, "set")>>, then |-> 198, else |-> 206])
        @@ (198 :> [limit |-> 9, tests |-> <<Test(1, "set")>>, then |-> 199, else |-> 202])
        @@ (206 :> [limit |-> 8, tests |-> <<Test(1, "set")>>, then |-> 207, else |-> 211])
        @@ (217 :> [limit |-> 7, tests |-> <<Test(2, "set")>>, then |-> 218, else |-> 226])
        @@ (218 :> [limit |-> 9, tests |-> <<Test(1, "set")>>, then |-> 219, else |-> 222])
        @@ (226 :> [limit |-> 8, tests |-> <<Test(1, "set")>>, then |-> 227, else |-> 231])
        @@ (239 :> [limit |-> 7, tests |-> <<Test(1, "set"), Test(2, "set")>>,
                    then |-> 240, else |-> 244])
        @@ (244 :> [limit |-> 7, tests |-> <<Test(2, "set")>>, then |-> 245, else |-> 249])
        @@ (249 :> [limit |-> 8, tests |-> <<Test(1, "set")>>, then |-> 250, else |-> 254])
        @@ (256 :> [limit |-> 7, tests |-> <<Test(2, "two"), Test(1, "two")>>,
                    then |-> 257, else |-> 263])
        @@ (267 :> [limit |-> 7, tests |-> <<Test(2, "set"), Test(1, "set")>>,
                    then |-> 268, else |-> 272])
        @@ (273 :> [limit |-> 6,
                    tests |-> <<Test(1, "one"), Test(2, "set"), Test(3, "not four")>>,
                    then |-> 274, else |-> 278])
        @@ (282 :> [limit |-> 7, tests |-> <<Test(2, "set")>>, then |-> 283, else |-> 291])
        @@ (283 :> [limit |-> 9, tests |-> <<Test(1, "set")>>, then |-> 284, else |-> 287])
        @@ (291 :> [limit |-> 8, tests |-> <<Test(1, "set")>>, then |-> 292, else |-> 296])

Holds(count, what) ==
    CASE what = "set" -> count # 0
      [] what = "two" -> count >= 2
      [] what = "one" -> count = 1
      [] what = "not four" -> count # 4

\* Python's "and" over the tests from the k-th on: a test is evaluated only
\* when those to its left hold.  [holds, reads |-> the positions read].
RECURSIVE AndTests(_, _, _, _)
AndTests(s, depth, tests, k) ==
    IF k > Len(tests)
    THEN [holds |-> TRUE, reads |-> {}]
    ELSE IF Holds(s.tiles[depth + tests[k].off], tests[k].what)
         THEN Then(AndTests(s, depth, tests, k + 1), LAMBDA rest :
              [holds |-> rest.holds, reads |-> {depth + tests[k].off} \cup rest.reads])
         ELSE [holds |-> FALSE, reads |-> {depth + tests[k].off}]

\* From line p to the next statement: the conditions on the way are
\* evaluated.  [line |-> the statement reached, reads |-> the neighbours of
\* depth that were read].
RECURSIVE Reach(_, _, _, _, _)
Reach(p, s, depth, i, reads) ==
    IF p \in DOMAIN BlockTests
    THEN Reach(IF s.tiles[depth] = BlockTests[p].count
               THEN BlockTests[p].then ELSE BlockTests[p].else, s, depth, i, reads)
    ELSE IF p \in DOMAIN Conditions
    THEN IF i < Conditions[p].limit
         THEN Then(AndTests(s, depth, Conditions[p].tests, 1), LAMBDA c :
              Reach(IF c.holds THEN Conditions[p].then ELSE Conditions[p].else,
                    s, depth, i, reads \cup c.reads))
         ELSE Reach(Conditions[p].else, s, depth, i, reads)
    ELSE [line |-> p, reads |-> reads]

\* _scan(init_mentsu) up to its call of _run(0)
ScanFlags(s, init_mentsu) ==
    [s EXCEPT !.flag_four_copies = @ \cup {i \in 0 .. 26 : s.tiles[i] = 4},
              !.number_melds = @ + init_mentsu]

\* ------------------------------------------------------------------------
\* The caller of calculate_shanten_for_regular_hand, the search followed
\* step by step.
\* ------------------------------------------------------------------------
MaxSearchDraws == 1

\* 1111m 2222m 3333m 4m (13 tiles)
ThreeQuadsHand == Hand((0 :> 4) @@ (1 :> 4) @@ (2 :> 4) @@ (3 :> 1))

\* 77s 8s 9999s and an East pair (9 tiles)
SouEndHand == Hand((24 :> 2) @@ (25 :> 1) @@ (26 :> 4) @@ (27 :> 2))

SearchHands ==
    { EmptyHand, OrphansHand, SixPairsHand, TwoRunsHand, HonorSetsHand, ManQuadHand,
      HonorQuadHand, TwoHonorQuadsHand, NineGatesHand, ThreeQuadsHand, SouEndHand }

InitSearch ==
    /\ tiles_34 \in SearchHands
    /\ draws = 0
    /\ pc = "ready"
    /\ fn = "none"
    /\ use_chiitoitsu = FALSE
    /\ use_kokushi = FALSE
    /\ ret = 0
    /\ solver = NoSolver
    /\ CodecIdle
    /\ SearchIdle
    /\ MeldIdle

Top == frames[Len(frames)]

\* The caller adds a tile, of which it holds less than four, while no call
\* is under way.
DrawSearch(t) ==
    /\ pc # "running"
    /\ draws < MaxSearchDraws
    /\ tiles_34[t] < 4
    /\ Draw(t)

\* calculate_shanten_for_regular_hand(tiles_34) up to the first call of
\* _run: __init__, calculate (ValueError on more than 14 tiles),
\* _remove_character_tiles and _scan.
StartRegular ==
    /\ pc = "ready"
    /\ fn' = "regular"
    /\ \E s \in {RegularShantenInit(tiles_34)} :
       \E count_of_tiles \in {SumFrom(s.tiles, 0)} :
           IF count_of_tiles > 14
           THEN /\ pc' = "raised"
                /\ solver' = s
                /\ frames' = <<>>
           ELSE /\ pc' = "running"
                /\ solver' = ScanFlags(RemoveCharacterTiles(s, count_of_tiles),
                                       FloorDiv3(14 - count_of_tiles))
                /\ frames' = <<[depth |-> 0, i |-> 0, line |-> 177, entry |-> solver']>>
    /\ touched' = {}
    /\ UNCHANGED <<tiles_34, draws, use_chiitoitsu, use_kokushi, ret, meld>>
    /\ UNCHANGED codec_vars

\* return from _run with the object s: the caller's activation goes on
\* after its call; when the outermost activation returns, _scan and
\* calculate return self._min_shanten.
ReturnFromRun(s) ==
    /\ solver' = s
    /\ touched' = {}
    /\ IF Len(frames) = 1
       THEN /\ frames' = <<>>
            /\ pc' = "returned"
            /\ ret' = s.min_shanten
       ELSE /\ frames' = [SubSeq(frames, 1, Len(frames) - 1) EXCEPT
                             ![Len(frames) - 1].line = After(@)]
            /\ UNCHANGED <<pc, ret>>
    /\ UNCHANGED <<tiles_34, draws, fn, use_chiitoitsu, use_kokushi, meld>>
    /\ UNCHANGED codec_vars

\* lines 177-178: the search is over once a complete hand was found
RunAgari ==
    /\ pc = "running"
    /\ Top.line = 177
    /\ solver.min_shanten = AGARI_STATE
    /\ ReturnFromRun(solver)

\* lines 180-187: no tile left at or after depth in the suits
RunLeaf ==
    /\ pc = "running"
    /\ Top.line = 177
    /\ solver.min_shanten # AGARI_STATE
    /\ SkipEmpty(solver.tiles, Top.depth) >= 27
    /\ ReturnFromRun(UpdateResult(solver))

\* lines 180-195: depth moves to the first position that holds a tile, i is
\* its rank, and the blocks begin
RunDescend ==
    /\ pc = "running"
    /\ Top.line = 177
    /\ solver.min_shanten # AGARI_STATE
    /\ \E depth \in {SkipEmpty(solver.tiles, Top.depth)} :
           /\ depth < 27
           /\ \E i \in {RankInSuit(depth)} :
              \E r \in {Reach(195, solver, depth, i, {})} :
                  /\ frames' = [frames EXCEPT ![Len(frames)].depth = depth,
                                              ![Len(frames)].i = i,
                                              ![Len(frames)].line = r.line]
                  /\ touched' = r.reads
    /\ UNCHANGED <<tiles_34, draws, pc, fn, use_chiitoitsu, use_kokushi, ret, solver, meld>>
    /\ UNCHANGED codec_vars

\* one _increase_... or _decrease_... statement
RunStatement ==
    /\ pc = "running"
    /\ Top.line \in StatementLines
    /\ \E s \in {Execute(Top.line, solver, Top.depth)} :
       \E r \in {Reach(After(Top.line), s, Top.depth, Top.i, {})} :
           /\ solver' = s
           /\ frames' = [frames EXCEPT ![Len(frames)].line = r.line]
           /\ touched' = Writes(Top.line, Top.depth) \cup r.reads
    /\ UNCHANGED <<tiles_34, draws, pc, fn, use_chiitoitsu, use_kokushi, ret, meld>>
    /\ UNCHANGED codec_vars

\* self._run(...): a new activation
RunCall ==
    /\ pc = "running"
    /\ Top.line \in CallLines
    /\ frames' = Append(frames, [depth |-> CallDepth(Top.line, Top.depth), i |-> 0,
                                 line |-> 177, entry |-> solver])
    /\ touched' = {}
    /\ UNCHANGED <<tiles_34, draws, pc, fn, use_chiitoitsu, use_kokushi, ret, solver, meld>>
    /\ UNCHANGED codec_vars

\* line 296
RunReturn ==
    /\ pc = "running"
    /\ Top.line = 296
    /\ ReturnFromRun(solver)

RunStep ==
    \/ RunAgari
    \/ RunLeaf
    \/ RunDescend
    \/ RunStatement
    \/ RunCall
    \/ RunReturn

NextSearch ==
    \/ \E t \in DrawTypes : DrawSearch(t)
    \/ StartRegular
    \/ RunStep

SpecSearch == InitSearch /\ [][NextSearch]_vars

\* The interpreter goes on executing a call that is under way.
FairSpecSearch == SpecSearch /\ WF_vars(RunStep)

\* ------------------------------------------------------------------------
\* The caller of calculate_shanten_for_regular_hand that holds four copies
\* of one honor and adds complete sets to them.
\* ------------------------------------------------------------------------
MaxSets == 3

\* the run r, r + 1, r + 2
RunOfThree(r) == [t \in TileTypes |-> IF t \in r .. r + 2 THEN 1 ELSE 0]

\* triplets of 1m, 2m, 9m, 1p, South and Chun; the runs 123m, 234m, 789m,
\* 123p and 789s
SetPool ==
    {Copies(t, 3) : t \in {0, 1, 8, 9, 28, 33}}
        \cup {RunOfThree(r) : r \in {0, 1, 6, 9, 24}}

InitHonorQuad ==
    /\ tiles_34 \in {Copies(t, 4) : t \in 27 .. 33}
    /\ draws = 0
    /\ pc = "ready"
    /\ fn = "none"
    /\ use_chiitoitsu = FALSE
    /\ use_kokushi = FALSE
    /\ ret = 0
    /\ solver = NoSolver
    /\ CodecIdle
    /\ SearchIdle
    /\ MeldIdle

\* The caller adds the three tiles of a set, no type beyond four copies.
AddSet(set) ==
    /\ draws < MaxSets
    /\ \A t \in TileTypes : tiles_34[t] + set[t] <= 4
    /\ tiles_34' = [t \in TileTypes |-> tiles_34[t] + set[t]]
    /\ draws' = draws + 1
    /\ pc' = "ready"
    /\ fn' = "none"
    /\ use_chiitoitsu' = FALSE
    /\ use_kokushi' = FALSE
    /\ ret' = 0
    /\ solver' = NoSolver
    /\ UNCHANGED codec_vars
    /\ UNCHANGED <<frames, touched, meld>>

NextHonorQuad ==
    \/ \E set \in SetPool : AddSet(set)
    \/ CallRegular

SpecHonorQuad == InitHonorQuad /\ [][NextHonorQuad]_vars

\* ------------------------------------------------------------------------
\* The owner of a Meld: it constructs melds, assigns attributes and reads
\* meld.tiles_34.
\* ------------------------------------------------------------------------
\* no tiles, the chi 1m 2m 3m, the chi 2m 3m 4m, three copies of 1m, the
\* four copies of Chun
MeldTiles == {<<>>, <<0, 4, 8>>, <<4, 8, 12>>, <<0, 1, 2>>, <<132, 133, 134, 135>>}

\* the tiles melds are constructed with; 2m 3m 4m comes by assignment only
ConstructedTiles == MeldTiles \ {<<4, 8, 12>>}

\* Meld.CHI, Meld.PON, Meld.KAN, or None
MeldTypes == {<<>>, <<"chi">>, <<"pon">>, <<"kan">>}

\* the attributes other than tiles that the owner assigns, with their values
OtherAttributes ==
    {<<"type", ty>> : ty \in MeldTypes} \cup {<<"opened", b>> : b \in BOOLEAN}
        \cup {<<"who", w>> : w \in {<<>>, <<0>>}}

InitMeld ==
    /\ tiles_34 = EmptyHand
    /\ draws = 0
    /\ pc = "ready"
    /\ fn = "none"
    /\ use_chiitoitsu = FALSE
    /\ use_kokushi = FALSE
    /\ ret = 0
    /\ solver = NoSolver
    /\ CodecIdle
    /\ SearchIdle
    /\ \E ty \in MeldTypes, tiles \in ConstructedTiles :
           meld = __init__(ty, tiles, TRUE, <<>>, <<>>, <<>>)

\* meld = Meld(meld_type = ty, tiles = tiles, opened = opened)
NewMeld(ty, tiles, opened) ==
    /\ meld' = __init__(ty, tiles, opened, <<>>, <<>>, <<>>)
    /\ pc' = "ready"
    /\ fn' = "Meld"
    /\ kw' = "none"
    /\ ret' = 0
    /\ UNCHANGED <<tiles_34, draws, use_chiitoitsu, use_kokushi, solver, tiles_136, string,
                   aka, tile_arg, frames, touched>>

\* meld.tiles = tiles
AssignTiles(tiles) ==
    /\ meld' = __setattr__(meld, "tiles", tiles)
    /\ pc' = "ready"
    /\ fn' = "__setattr__"
    /\ kw' = "tiles"
    /\ ret' = 0
    /\ UNCHANGED <<tiles_34, draws, use_chiitoitsu, use_kokushi, solver, tiles_136, string,
                   aka, tile_arg, frames, touched>>

\* meld.<name> = value for an attribute other than tiles
AssignOther(name, value) ==
    /\ meld' = __setattr__(meld, name, value)
    /\ pc' = "ready"
    /\ fn' = "__setattr__"
    /\ kw' = name
    /\ ret' = 0
    /\ UNCHANGED <<tiles_34, draws, use_chiitoitsu, use_kokushi, solver, tiles_136, string,
                   aka, tile_arg, frames, touched>>

\* meld.tiles_34
ReadTiles34 ==
    /\ \E out \in {tiles_34_get(meld)} :
           /\ ret' = out.value
           /\ meld' = out.self
    /\ pc' = "returned"
    /\ fn' = "tiles_34"
    /\ kw' = "none"
    /\ UNCHANGED <<tiles_34, draws, use_chiitoitsu, use_kokushi, solver, tiles_136, string,
                   aka, tile_arg, frames, touched>>

NextMeld ==
    \/ \E ty \in MeldTypes, tiles \in ConstructedTiles, opened \in BOOLEAN :
           NewMeld(ty, tiles, opened)
    \/ \E tiles \in MeldTiles : AssignTiles(tiles)
    \/ \E a \in OtherAttributes : AssignOther(a[1], a[2])
    \/ ReadTiles34

SpecMeld == InitMeld /\ [][NextMeld]_vars

\* ------------------------------------------------------------------------
\* Vocabulary of the properties
\* ------------------------------------------------------------------------
TileCount(h) == SumFrom(h, 0)

\* entries 0..4 and at most 14 tiles
ValidHand(h) == (\A t \in TileTypes : h[t] \in 0 .. 4) /\ TileCount(h) <= 14

AddTile(h, t) == [h EXCEPT ![t] = @ + 1]

RegularEntry == {"calculate_shanten", "regular"}

Abs(x) == IF x < 0 THEN 0 - x ELSE x

\* The tiles of h split into triplets and in-suit runs of three.
RECURSIVE AllSets(_)
AllSets(h) ==
    IF \A t \in TileTypes : h[t] = 0
    THEN TRUE
    ELSE LET t == CHOOSE u \in TileTypes : h[u] > 0 /\ \A w \in 0 .. u - 1 : h[w] = 0
         IN  \/ h[t] >= 3 /\ AllSets([h EXCEPT ![t] = @ - 3])
             \/ /\ t < 27
                /\ t % 9 <= 6
                /\ h[t + 1] > 0
                /\ h[t + 2] > 0
                /\ AllSets([h EXCEPT ![t] = @ - 1, ![t + 1] = @ - 1, ![t + 2] = @ - 1])

\* Sets plus exactly one pair; the sets a short hand lacks are the called ones.
RegularAgari(h) ==
    \E p \in TileTypes : h[p] >= 2 /\ AllSets([h EXCEPT ![p] = @ - 2])

SevenPairs(h) == Cardinality({t \in TileTypes : h[t] >= 2}) >= 7

ThirteenOrphans(h) ==
    /\ \A t \in TERMINAL_AND_HONOR_INDICES : h[t] >= 1
    /\ \E t \in TERMINAL_AND_HONOR_INDICES : h[t] >= 2

\* ------------------------------------------------------------------------
\* Properties
\* ------------------------------------------------------------------------

\* C1: on a valid hand calculate_shanten returns the minimum of the regular
\* result and of the results of exactly the enabled ones of the chiitoitsu
\* and kokushi solvers; with both flags false it is the regular result.
C1_MinOfEnabledSolvers ==
    (pc # "ready" /\ fn = "calculate_shanten" /\ ValidHand(tiles_34)) =>
        /\ pc = "returned"
        /\ \E regular \in {calculate_shanten_for_regular_hand(tiles_34).value} :
               LET enabled ==
                       {regular}
                           \cup (IF use_chiitoitsu
                                 THEN {calculate_shanten_for_chiitoitsu_hand(tiles_34)}
                                 ELSE {})
                           \cup (IF use_kokushi
                                 THEN {calculate_shanten_for_kokushi_hand(tiles_34)}
                                 ELSE {})
               IN  /\ ret \in enabled
                   /\ \A x \in enabled : ret <= x
                   /\ (~use_chiitoitsu /\ ~use_kokushi) => ret = regular

\* C1 witness: a disabled solver would have given less than what is returned.
C1_Witness ==
    /\ pc = "returned"
    /\ fn = "calculate_shanten"
    /\ ValidHand(tiles_34)
    /\ ~use_chiitoitsu
    /\ use_kokushi
    /\ calculate_shanten_for_chiitoitsu_hand(tiles_34) < ret

\* C2: on a valid hand of 1..14 tiles the entry points that run the regular
\* solver return a value in -1..8, whatever the flags.
C2_ResultRange ==
    (/\ pc # "ready"
     /\ fn \in RegularEntry
     /\ ValidHand(tiles_34)
     /\ TileCount(tiles_34) >= 1) =>
        /\ pc = "returned"
        /\ ret \in -1 .. 8
        /\ solver.min_shanten \in -1 .. 8

\* C2 witness: the sentinel 8 is returned for thirteen unrelated tiles.
C2_Witness ==
    /\ pc = "returned"
    /\ fn = "calculate_shanten"
    /\ ValidHand(tiles_34)
    /\ TileCount(tiles_34) = 13
    /\ ret = 8

\* C3: on a valid hand calculate_shanten returns -1 exactly when the hand is
\* sets plus one pair, or (chiitoitsu enabled) seven distinct pairs, or
\* (kokushi enabled) the thirteen orphans with one of them doubled.
C3_AgariIffDecomposition ==
    (pc = "returned" /\ fn = "calculate_shanten" /\ ValidHand(tiles_34)) =>
        (ret = AGARI_STATE <=>
            \/ RegularAgari(tiles_34)
            \/ use_chiitoitsu /\ SevenPairs(tiles_34)
            \/ use_kokushi /\ ThirteenOrphans(tiles_34))

\* C3 witness: a hand completed by two identical runs, found by the regular
\* solver alone.
C3_Witness ==
    /\ pc = "returned"
    /\ fn = "calculate_shanten"
    /\ ~use_chiitoitsu
    /\ ~use_kokushi
    /\ ValidHand(tiles_34)
    /\ tiles_34[0] = 2 /\ tiles_34[1] = 2 /\ tiles_34[2] = 2
    /\ ret = AGARI_STATE

\* C4: a valid hand of 3k+1 tiles has regular shanten 0 exactly when some
\* tile type held fewer than four times completes it.
C4_TenpaiIffWaitExists ==
    (/\ pc = "returned"
     /\ fn = "regular"
     /\ ValidHand(tiles_34)
     /\ TileCount(tiles_34) % 3 = 1) =>
        (ret = TENPAI_STATE <=>
            \E t \in TileTypes :
                /\ tiles_34[t] < 4
                /\ calculate_shanten_for_regular_hand(AddTile(tiles_34, t)).value
                       = AGARI_STATE)

\* C4 witness: a 13-tile hand in tenpai.
C4_Witness ==
    /\ pc = "returned"
    /\ fn = "regular"
    /\ ValidHand(tiles_34)
    /\ TileCount(tiles_34) = 13
    /\ ret = TENPAI_STATE

\* The shanten of the hand with one more tile of any type, against ret.
ChangeAtMostOne ==
    \A t \in TileTypes :
        ValidHand(AddTile(tiles_34, t)) =>
            Abs(calculate_shanten(AddTile(tiles_34, t), use_chiitoitsu, use_kokushi).value
                    - ret) <= 1

\* C5 as stated: adding one tile to any valid hand changes calculate_shanten
\* by at most 1.
C5_Original ==
    (pc = "returned" /\ fn = "calculate_shanten" /\ ValidHand(tiles_34)) =>
        ChangeAtMostOne

\* C5 amended: adding one tile to a valid hand whose tile count is not 2
\* modulo 3 changes calculate_shanten by at most 1.
C5_ChangeAtMostOne ==
    (/\ pc = "returned"
     /\ fn = "calculate_shanten"
     /\ ValidHand(tiles_34)
     /\ TileCount(tiles_34) % 3 # 2) =>
        ChangeAtMostOne

\* C5 witness: a 13-tile hand that one more tile completes.
C5_Witness ==
    /\ pc = "returned"
    /\ fn = "calculate_shanten"
    /\ ValidHand(tiles_34)
    /\ TileCount(tiles_34) = 13
    /\ ret = TENPAI_STATE
    /\ \E t \in TileTypes :
           /\ ValidHand(AddTile(tiles_34, t))
           /\ calculate_shanten(AddTile(tiles_34, t), use_chiitoitsu, use_kokushi).value
                  = AGARI_STATE

\* C6: with more than 14 tiles calculate_shanten and
\* calculate_shanten_for_regular_hand raise ValueError whatever the flags,
\* before the honor pre-pass or the search touched the solver.
C6_TooManyTilesRaises ==
    (pc # "ready" /\ fn \in RegularEntry /\ TileCount(tiles_34) > 14) =>
        /\ pc = "raised"
        /\ solver = RegularShantenInit(tiles_34)

\* C6 witness: calculate_shanten raised on 15 tiles with both flags set.
C6_Witness ==
    /\ pc = "raised"
    /\ fn = "calculate_shanten"
    /\ use_chiitoitsu
    /\ use_kokushi
    /\ TileCount(tiles_34) = 15

\* C7 as stated: an array with an entry below 0 or above 4 makes the entry
\* points that run the regular solver raise instead of returning a number.
C7_Original ==
    (/\ pc # "ready"
     /\ fn \in RegularEntry
     /\ \E t \in TileTypes : tiles_34[t] < 0 \/ tiles_34[t] > 4) =>
        pc = "raised"

\* C8: a call of the regular solver leaves the caller's array unchanged, and
\* the solver's working copy equals the input once the call returned or
\* raised.
C8_InputUnchanged ==
    [][(pc = "ready" /\ pc' # "ready" /\ fn' \in RegularEntry) =>
           /\ tiles_34' = tiles_34
           /\ \A t \in TileTypes : solver'.tiles[t] = tiles_34[t]]_vars

\* C8 witness: the search has taken runs in a suit and returned.
C8_Witness ==
    /\ pc = "returned"
    /\ fn = "regular"
    /\ tiles_34[0] >= 1 /\ tiles_34[1] >= 1 /\ tiles_34[2] >= 1
    /\ solver.min_shanten < 8
    /\ solver.tiles = tiles_34

\* C9: with P the number of types held at least twice and K the number of
\* types held at least once, the chiitoitsu solver returns -1 when P = 7 and
\* otherwise 6 - P + max(0, 7 - K); four of a type are one pair.
C9_ChiitoitsuFormula ==
    (pc = "returned" /\ fn = "chiitoitsu") =>
        LET P == Cardinality({t \in TileTypes : tiles_34[t] \in {2, 3, 4} \/ tiles_34[t] > 4})
            K == Cardinality({t \in TileTypes : tiles_34[t] > 0})
            short == IF 7 - K > 0 THEN 7 - K ELSE 0
        IN  ret = IF P = 7 THEN -1 ELSE 6 - P + short

\* C9 witness: a hand holding four of one type and pairs of others.
C9_Witness ==
    /\ pc = "returned"
    /\ fn = "chiitoitsu"
    /\ \E t \in TileTypes : tiles_34[t] = 4
    /\ \E t \in TileTypes : tiles_34[t] = 2

\* The array with the 21 types that are neither terminal nor honor emptied.
OnlyOrphans(h) == [t \in TileTypes |-> IF t \in TERMINAL_AND_HONOR_INDICES THEN h[t] ELSE 0]

\* C10: with T the number of the 13 terminal-and-honor types held and D the
\* number of them held at least twice, the kokushi solver returns
\* 13 - T - (1 if D >= 1 else 0); the other 21 types do not matter.
C10_KokushiFormula ==
    (pc = "returned" /\ fn = "kokushi") =>
        LET orphans == {0, 8, 9, 17, 18, 26} \cup (27 .. 33)
            T == Cardinality({t \in orphans : tiles_34[t] >= 1})
            D == Cardinality({t \in orphans : tiles_34[t] >= 2})
        IN  /\ ret = 13 - T - (IF D >= 1 THEN 1 ELSE 0)
            /\ ret = calculate_shanten_for_kokushi_hand(OnlyOrphans(tiles_34))

\* C10 witness: several orphan types are doubled and other tiles are held.
C10_Witness ==
    /\ pc = "returned"
    /\ fn = "kokushi"
    /\ Cardinality({t \in TERMINAL_AND_HONOR_INDICES : tiles_34[t] >= 2}) >= 2
    /\ \E t \in TileTypes \ TERMINAL_AND_HONOR_INDICES : tiles_34[t] > 0

\* C11: the hand that is only two tiles of one type has shanten -1 and the
\* hand that is only three tiles of one type has shanten 0, for
\* calculate_shanten under every flag combination and for
\* calculate_shanten_for_regular_hand.
C11_PairAndTripletAlone ==
    (pc # "ready" /\ fn \in RegularEntry) =>
        \A t \in TileTypes :
            /\ tiles_34 = Copies(t, 2) => (pc = "returned" /\ ret = -1)
            /\ tiles_34 = Copies(t, 3) => (pc = "returned" /\ ret = 0)

\* C11 witness: a triplet of the last dragon alone is one tile from winning.
C11_Witness ==
    /\ pc = "returned"
    /\ fn = "regular"
    /\ tiles_34 = Copies(33, 3)
    /\ ret = 0

\* C20 as stated: on a hand with entries in 0..4 and 1..14 tiles the
\* chiitoitsu solver returns -1 for seven distinct pairs and a value in 0..6
\* otherwise.
C20_Original ==
    (/\ pc = "returned"
     /\ fn = "chiitoitsu"
     /\ ValidHand(tiles_34)
     /\ TileCount(tiles_34) >= 1) =>
        IF SevenPairs(tiles_34) THEN ret = -1 ELSE ret \in 0 .. 6

\* The number of ids of type t in a list of 136-format ids.
HeldOfType(ids, t) == Cardinality({k \in 1 .. Len(ids) : ids[k] \div 4 = t})

\* ids in 0..135, at most four of a type
ValidIds(ids) ==
    /\ \A k \in 1 .. Len(ids) : ids[k] \in 0 .. 135
    /\ \A t \in TileTypes : HeldOfType(ids, t) <= 4

\* C12: for ids in 0..135 with at most four per type, to_136_array of
\* to_34_array(ids) holds every type as often as ids does and is made, for a
\* type t held n times, of exactly 4t .. 4t+n-1; and for a count array c with
\* entries in 0..4, to_34_array(to_136_array(c)) = c.
C12_ArrayRoundTrips ==
    /\ (pc # "ready" /\ fn = "to_34_array" /\ ValidIds(tiles_136)) =>
           /\ pc = "returned"
           /\ \E back \in {to_136_array(ret)} :
                  /\ Len(back) = Len(tiles_136)
                  /\ \A t \in TileTypes :
                         /\ HeldOfType(back, t) = HeldOfType(tiles_136, t)
                         /\ {back[k] : k \in {j \in 1 .. Len(back) : back[j] \div 4 = t}}
                                = {4 * t + (i - 1) : i \in 1 .. HeldOfType(tiles_136, t)}
    /\ (pc # "ready" /\ fn = "to_136_array"
            /\ \A t \in TileTypes : tiles_34[t] \in 0 .. 4) =>
           /\ pc = "returned"
           /\ to_34_array(ret) = [raised |-> FALSE, value |-> tiles_34]

\* C12 witness: a collection holding the red 5m and two tiles of 1m, neither
\* its first copy, has been counted, and the ids rebuilt from the counts are
\* other ids of the same types.
C12_Witness ==
    /\ pc = "returned"
    /\ fn = "to_34_array"
    /\ ValidIds(tiles_136)
    /\ ret[0] = 2
    /\ ret[4] = 1
    /\ \A k \in 1 .. Len(tiles_136) : tiles_136[k] # 0
    /\ to_136_array(ret) = <<0, 1, 16>>

\* Vocabulary of the texts.
IsDigit(ch) == \E d \in 0 .. 9 : DigitChars[d + 1] = ch

\* The value of a digit; -1 for any other character.
DigitValue(ch) == IF IsDigit(ch) THEN CHOOSE d \in 0 .. 9 : DigitChars[d + 1] = ch ELSE -1

\* The rank a token stands for: 0 and r are fives.
RankOf(ch) == IF ch \in {"0", "r"} THEN 5 ELSE DigitValue(ch)

\* The place of a token among the ids of its suit: 0 is the first five.
SortKey(ch) == IF ch = "0" THEN 9 ELSE 2 * DigitValue(ch)

LetterRank(ch) == CASE ch = "m" -> 1 [] ch = "p" -> 2 [] ch = "s" -> 3 [] OTHER -> 4

\* The suit letter that closes the group of the k-th character.
GroupLetterAt(s, k) ==
    s[CHOOSE j \in k .. Len(s) :
          /\ ~IsDigit(s[j])
          /\ \A i \in k .. (j - 1) : IsDigit(s[i])]

\* A text as to_one_line_string writes it: groups m, p, s, z in this order,
\* none empty, tokens in ascending id order, at most four tiles of a type, 0
\* only with b and only in a suit, honors 1..7.
RendererString(s, b) ==
    /\ \A k \in 1 .. Len(s) : IsDigit(s[k]) \/ s[k] \in {"m", "p", "s", "z"}
    /\ Len(s) > 0 => ~IsDigit(s[Len(s)])
    /\ \A k \in 1 .. Len(s) : ~IsDigit(s[k]) => (k > 1 /\ IsDigit(s[k - 1]))
    /\ \A j, k \in 1 .. Len(s) :
           (j < k /\ ~IsDigit(s[j]) /\ ~IsDigit(s[k])) => LetterRank(s[j]) < LetterRank(s[k])
    /\ \A k \in 1 .. (Len(s) - 1) :
           (IsDigit(s[k]) /\ IsDigit(s[k + 1])) => SortKey(s[k]) <= SortKey(s[k + 1])
    /\ \A k \in 1 .. Len(s) :
           IsDigit(s[k]) =>
               /\ s[k] = "0" => (b /\ GroupLetterAt(s, k) # "z")
               /\ GroupLetterAt(s, k) = "z" => DigitValue(s[k]) \in 1 .. 7
               /\ Cardinality({j \in 1 .. Len(s) :
                                  /\ IsDigit(s[j])
                                  /\ GroupLetterAt(s, j) = GroupLetterAt(s, k)
                                  /\ RankOf(s[j]) = RankOf(s[k])}) <= 4

IsParser == fn \in {"one_line_string_to_136_array", "string_to_136_array"}

\* C13 as stated: for a text in the renderer's own form, rendering what
\* one_line_string_to_136_array parsed, with print_aka_dora = has_aka_dora,
\* gives the text back.
C13_Original ==
    (/\ pc # "ready"
     /\ fn = "one_line_string_to_136_array"
     /\ RendererString(string, aka)) =>
        /\ pc = "returned"
        /\ to_one_line_string(ret, aka) = string

\* C14 as stated: whatever the characters of the text, the parsers return a
\* list and let no exception escape.
C14_Original ==
    (pc # "ready" /\ IsParser) => pc = "returned"

\* The 34-format type of the first tile of the suit a keyword stands for.
SuitBase(k) == CASE k = "man" -> 0 [] k = "pin" -> 9 [] k = "sou" -> 18 [] OTHER -> 27

\* A suit text of the claim: ranks 1..9 (1..7 for honors), 0 or r for the
\* red five of a suit, at most one of them, at most four tokens of a type.
SuitString(s, k) ==
    /\ Len(s) > 0
    /\ \A j \in 1 .. Len(s) :
           /\ (IsDigit(s[j]) /\ s[j] # "0") \/ (s[j] \in {"0", "r"} /\ k # "honors")
           /\ k = "honors" => RankOf(s[j]) \in 1 .. 7
           /\ Cardinality({i \in 1 .. Len(s) : RankOf(s[i]) = RankOf(s[j])}) <= 4
    /\ Cardinality({j \in 1 .. Len(s) : s[j] \in {"0", "r"}}) <= 1

\* C15 as stated: for such a suit text and either has_aka_dora, every token
\* of type t gets an id of 4t..4t+3, the ids are pairwise distinct, and a
\* numeric token takes the lowest copy of its type not taken before (the
\* red-five id being kept for 0 and r when has_aka_dora is set).
C15_Original ==
    (pc # "ready" /\ fn = "string_to_136_array" /\ SuitString(string, kw)) =>
        /\ pc = "returned"
        /\ Len(ret) = Len(string)
        /\ \A j \in 1 .. Len(string) :
               LET t == SuitBase(kw) + RankOf(string[j]) - 1
                   free == {4 * t + c : c \in 0 .. 3}
                               \ ({ret[i] : i \in 1 .. (j - 1)}
                                      \cup (IF aka THEN AKA_DORAS ELSE {}))
               IN  /\ ret[j] \in {4 * t + c : c \in 0 .. 3}
                   /\ \A i \in 1 .. (j - 1) : ret[i] # ret[j]
                   /\ string[j] \notin {"0", "r"} =>
                          (free # {} /\ \A x \in free : ret[j] <= x)

\* A text made of groups, each a run of digits closed by a suit letter.
GroupedString(s) ==
    /\ Len(s) > 0
    /\ \A k \in 1 .. Len(s) : IsDigit(s[k]) \/ s[k] \in {"m", "p", "s", "z", "h"}
    /\ ~IsDigit(s[Len(s)])

RECURSIVE GroupsOf(_)
GroupsOf(s) ==
    IF s = <<>> THEN <<>>
    ELSE LET j == CHOOSE j \in 1 .. Len(s) :
                      ~IsDigit(s[j]) /\ \A i \in 1 .. (j - 1) : IsDigit(s[i])
         IN  <<SubSeq(s, 1, j)>> \o GroupsOf(SubSeq(s, j + 1, Len(s)))

\* The digits of all the groups of one suit, in the order they appear.
DigitsOfSuit(s, letters) ==
    LET groups == GroupsOf(s)
        own == SelectSeq(groups, LAMBDA g : g[Len(g)] \in letters)
    IN  join([k \in 1 .. Len(own) |-> SubSeq(own[k], 1, Len(own[k]) - 1)])

\* C16 as stated: the result is the concatenation, in the order the groups
\* appear, of the ids of each group parsed on its own.
C16_Original ==
    (/\ pc # "ready"
     /\ fn = "one_line_string_to_136_array"
     /\ GroupedString(string)) =>
        /\ pc = "returned"
        /\ \E groups \in {GroupsOf(string)} :
               ret = join([k \in 1 .. Len(groups) |->
                              one_line_string_to_136_array(groups[k], aka).value])

\* C16 amended: the result is the concatenation, in the fixed order man, pin,
\* sou, honors, of the ids of one group per suit, made of the digits of all
\* the groups of that suit joined in the order they appear.
C16_GroupsMergedBySuit ==
    (/\ pc # "ready"
     /\ fn = "one_line_string_to_136_array"
     /\ GroupedString(string)) =>
        /\ pc = "returned"
        /\ ret = one_line_string_to_136_array(DigitsOfSuit(string, {"m"}) \o <<"m">>, aka).value
                  \o one_line_string_to_136_array(DigitsOfSuit(string, {"p"}) \o <<"p">>, aka).value
                  \o one_line_string_to_136_array(DigitsOfSuit(string, {"s"}) \o <<"s">>, aka).value
                  \o one_line_string_to_136_array(DigitsOfSuit(string, {"z", "h"}) \o <<"z">>, aka).value

\* C16 witness: a pin group written before a man group has been parsed, and
\* the man id comes first.
C16_Witness ==
    /\ pc = "returned"
    /\ fn = "one_line_string_to_136_array"
    /\ string = <<"1", "p", "1", "m">>
    /\ ret = <<0, 36>>

\* The five groups of tile types: man, pin, sou, winds, dragons.
TileGroups == {0 .. 8, 9 .. 17, 18 .. 26, 27 .. 30, 31 .. 33}

GroupOf(t) == CHOOSE g \in TileGroups : t \in g

\* _indicator_to_dora_34 applied n times
RECURSIVE DoraIterate(_, _)
DoraIterate(t, n) == IF n = 0 THEN t ELSE DoraIterate(_indicator_to_dora_34(t), n - 1)

\* C17: _indicator_to_dora_34 sends a type to its successor inside its group
\* (man, pin, sou, winds, dragons), the last of a group to the first; it is
\* one-to-one, and the types of a group form a single cycle of the group's
\* length (9, 9, 9, 4, 3).
C17_DoraIsGroupSuccessor ==
    (pc = "returned" /\ fn = "_indicator_to_dora_34") =>
        \E g \in {GroupOf(tile_arg)} :
            /\ ret \in g
            /\ ret = IF tile_arg + 1 \in g THEN tile_arg + 1
                     ELSE CHOOSE first \in g : \A u \in g : first <= u
            /\ \A u \in TileTypes : _indicator_to_dora_34(u) = ret => u = tile_arg
            /\ DoraIterate(tile_arg, Cardinality(g)) = tile_arg
            /\ \A n \in 1 .. (Cardinality(g) - 1) : DoraIterate(tile_arg, n) # tile_arg
            /\ Cardinality(g) = IF tile_arg < 27 THEN 9 ELSE IF tile_arg < 31 THEN 4 ELSE 3

\* C17 witness: North was given and East came back.
C17_Witness ==
    /\ pc = "returned"
    /\ fn = "_indicator_to_dora_34"
    /\ tile_arg = 30
    /\ ret = 27

\* The tiles of hand h that the indicators from the k-th on make dora, an
\* indicator counting once for every tile of its dora type.
RECURSIVE DoraTilesFrom(_, _, _)
DoraTilesFrom(h, indicators, k) ==
    IF k > Len(indicators) THEN 0
    ELSE h[_indicator_to_dora_34(indicators[k] \div 4)] + DoraTilesFrom(h, indicators, k + 1)

\* C18: count_dora_for_hand(h, build_dora_count_map(I)) is the sum, over the
\* indicators i of I with repeats, of h[dora type of i].
C18_HandDoraIsSumOverIndicators ==
    (pc = "returned" /\ fn = "count_dora_for_hand") =>
        ret = DoraTilesFrom(tiles_34, tiles_136, 1)

\* C18 witness: two indicators of one type point to a pair the hand holds.
C18_Witness ==
    /\ pc = "returned"
    /\ fn = "count_dora_for_hand"
    /\ tiles_136 = <<0, 1>>
    /\ tiles_34[1] = 2
    /\ ret = 4

RECURSIVE SuitedFrom(_, _)
SuitedFrom(tiles, t) == IF t > 26 THEN 0 ELSE tiles[t] + SuitedFrom(tiles, t + 1)

\* An activation of _run returns in this step.
RunReturns == pc = "running" /\ Len(frames') < Len(frames)

\* C21: when a call of _run returns, also one that returns at once because
\* min_shanten is already -1, the workspace counts, the counters melds,
\* tatsu and pairs and flag_isolated_tiles are what they were when the call
\* was entered; only min_shanten may differ, and it has not increased.
C21_RunRestoresWorkspace ==
    [][RunReturns =>
           /\ solver'.tiles = Top.entry.tiles
           /\ solver'.number_melds = Top.entry.number_melds
           /\ solver'.number_tatsu = Top.entry.number_tatsu
           /\ solver'.number_pairs = Top.entry.number_pairs
           /\ solver'.flag_isolated_tiles = Top.entry.flag_isolated_tiles
           /\ solver' = [Top.entry EXCEPT !.min_shanten = solver'.min_shanten]
           /\ solver'.min_shanten <= Top.entry.min_shanten]_vars

\* C21 witness: a call made after a complete hand had been found has just
\* returned (at once), inside an activation that had seen worse.
C21_Witness ==
    /\ pc = "running"
    /\ Top.line - 1 \in CallLines
    /\ solver.min_shanten = AGARI_STATE
    /\ Top.entry.min_shanten > AGARI_STATE
    /\ Len(frames) >= 2

\* C22: when _increase_isolated_tile(depth) is about to run, bit depth of
\* flag_isolated_tiles is not set, so the clearing that follows the call
\* undoes it exactly; after the search the mask holds at most bit 27.
C22_IsolatedBitIsFresh ==
    /\ (pc = "running" /\ Top.line \in LinesOf.increase_isolated_tile)
           => Top.depth \notin solver.flag_isolated_tiles
    /\ (pc = "running" /\ Top.line \in LinesOf.decrease_isolated_tile)
           => /\ Top.depth \in solver.flag_isolated_tiles
              /\ \A k \in 1 .. (Len(frames) - 1) :
                     frames[k].line - 1 \in LinesOf.increase_isolated_tile
                         => frames[k].depth # Top.depth
    /\ (pc = "returned" /\ fn = "regular") => solver.flag_isolated_tiles \subseteq {27}

\* C22 witness: a marked tile is about to be unmarked while an enclosing
\* activation holds a mark of its own and the honors hold one too.
C22_Witness ==
    /\ pc = "running"
    /\ Top.line \in LinesOf.decrease_isolated_tile
    /\ 27 \in solver.flag_isolated_tiles
    /\ \E k \in 1 .. (Len(frames) - 1) : frames[k].line - 1 \in LinesOf.increase_isolated_tile

\* C23: the positions depth + 1, depth + 2, depth + 3 a step reads or writes
\* lie in the suit of depth: depth + 1 only with rank below 8, depth + 2
\* only below 7, depth + 3 only below 6 (ranks counted from 0).
C23_RunsStayInSuit ==
    (pc = "running" /\ frames # <<>>) =>
        \A k \in touched :
            /\ k \in {Top.depth + 1, Top.depth + 2, Top.depth + 3}
            /\ k <= 26
            /\ k \div 9 = Top.depth \div 9
            /\ (k = Top.depth + 1) => (Top.depth % 9) < 8
            /\ (k = Top.depth + 2) => (Top.depth % 9) < 7
            /\ (k = Top.depth + 3) => (Top.depth % 9) < 6

\* C23 witness: the search stands on a 9 whose right neighbour, the first
\* position of the next group, holds a tile, and no neighbour was looked at.
C23_Witness ==
    /\ pc = "running"
    /\ Top.line \in LinesOf.increase_isolated_tile
    /\ Top.depth % 9 = 8
    /\ solver.tiles[Top.depth + 1] # 0
    /\ touched = {}

\* C24: during the search every entry of the workspace is between 0 and
\* the entry of the input hand.
C24_WorkspaceWithinInput ==
    pc = "running" =>
        \A t \in TileTypes : solver.tiles[t] >= 0 /\ solver.tiles[t] <= tiles_34[t]

\* C24 witness: all four copies of a type are taken, a set and a lone tile.
C24_Witness ==
    /\ pc = "running"
    /\ Top.line = 212
    /\ tiles_34[Top.depth] = 4
    /\ solver.tiles[Top.depth] = 0

\* Each activation was called with a depth not below its caller's and with
\* fewer suited tiles left; the depth passed is at most 27 and an
\* activation past its leaf test stands below 27.
DepthAndTilesDescend ==
    /\ \A k \in 2 .. Len(frames) :
           /\ frames[k].depth >= frames[k - 1].depth
           /\ SuitedFrom(frames[k].entry.tiles, 0) < SuitedFrom(frames[k - 1].entry.tiles, 0)
    /\ \A k \in 1 .. Len(frames) :
           IF frames[k].line = 177 THEN frames[k].depth <= 27 ELSE frames[k].depth < 27

\* C25: the search terminates: recursive calls are made with a depth not
\* smaller than the caller's and strictly fewer tiles in positions 0..26,
\* the depth argument never exceeds 27, and every search returns.
C25_SearchTerminates ==
    /\ []DepthAndTilesDescend
    /\ (pc = "running") ~> (pc = "returned")

\* C25 witness: an activation was called with depth 27, below one that was
\* called for the same position as its caller.
C25_Witness ==
    /\ pc = "running"
    /\ Top.line = 177
    /\ Top.depth = 27
    /\ \E k \in 2 .. Len(frames) :
           /\ frames[k - 1].line \in {220, 259, 269}
           /\ frames[k].depth = frames[k - 1].depth

\* The symmetries of the tile set: two suits exchanged, the ranks of a suit
\* reversed, two honor types exchanged.
SwapSuits(h, a, b) ==
    [t \in TileTypes |->
        IF t < 27 /\ t \div 9 = a THEN h[9 * b + (t % 9)]
        ELSE IF t < 27 /\ t \div 9 = b THEN h[9 * a + (t % 9)]
        ELSE h[t]]

ReverseSuit(h, a) ==
    [t \in TileTypes |-> IF t < 27 /\ t \div 9 = a THEN h[9 * a + 8 - (t % 9)] ELSE h[t]]

SwapHonors(h, a, b) ==
    [t \in TileTypes |-> IF t = a THEN h[b] ELSE IF t = b THEN h[a] ELSE h[t]]

SymmetricImages(h) ==
    {SwapSuits(h, 0, 1), SwapSuits(h, 1, 2), SwapSuits(h, 0, 2)}
        \cup {ReverseSuit(h, a) : a \in 0 .. 2}
        \cup {SwapHonors(h, a, a + 1) : a \in 27 .. 32}
        \cup {SwapHonors(h, 27, 33)}

\* C26: on a valid hand calculate_shanten_for_regular_hand returns the same
\* number for the hand with two suits exchanged, with the ranks of a suit
\* reversed, and with two honor types exchanged.
C26_SymmetricHandsAgree ==
    (pc = "returned" /\ fn = "regular" /\ ValidHand(tiles_34)) =>
        \A g \in SymmetricImages(tiles_34) :
            \E out \in {calculate_shanten_for_regular_hand(g)} :
                ~out.raised /\ out.value = ret

\* C26 witness: a hand that differs from its mirror image in man, from its
\* man/pin exchange and from its East/Chun exchange was evaluated.
C26_Witness ==
    /\ pc = "returned"
    /\ fn = "regular"
    /\ ValidHand(tiles_34)
    /\ ReverseSuit(tiles_34, 0) # tiles_34
    /\ SwapSuits(tiles_34, 0, 1) # tiles_34
    /\ SwapHonors(tiles_34, 27, 33) # tiles_34
    /\ ret = 1

\* Four copies of the honor t, and the other tiles are three complete sets.
QuadAndThreeSets(h, t) ==
    /\ h[t] = 4
    /\ TileCount(h) = 13
    /\ AllSets([h EXCEPT ![t] = 0])

\* C27: for a 13-tile hand of four copies of one honor and three complete
\* sets of other types, calculate_shanten_for_regular_hand returns 1, not
\* 0: the honors have set their four-copies and isolation bits and the
\* jidahai floor is 1.
C27_HonorQuadIsOneAway ==
    (pc = "returned" /\ fn = "regular") =>
        \A t \in 27 .. 33 :
            QuadAndThreeSets(tiles_34, t) =>
                /\ ret = 1
                /\ solver.number_jidahai = 1
                /\ 27 \in solver.flag_four_copies
                /\ 27 \in solver.flag_isolated_tiles

\* C27 witness: EEEE with 1111m 2m 3m and 789s.
C27_Witness ==
    /\ pc = "returned"
    /\ fn = "regular"
    /\ QuadAndThreeSets(tiles_34, 27)
    /\ tiles_34[0] = 4
    /\ tiles_34[26] = 1
    /\ ret = 1

\* x div 4 for the tiles x, in their order
TypesOf(tiles) == [k \in 1 .. Len(tiles) |-> tiles[k] \div 4]

\* C28: a read of meld.tiles_34 returns x div 4 for the tiles assigned at
\* that moment; an assignment to tiles discards the cached list, and an
\* assignment to another attribute leaves the cache as it is.
C28_CacheFollowsTiles ==
    [][/\ fn' = "tiles_34" => ret' = TypesOf(meld'.tiles)
       /\ (fn' = "__setattr__" /\ kw' = "tiles") => meld'.tiles_34 = <<>>
       /\ (fn' = "__setattr__" /\ kw' # "tiles") =>
              /\ meld'.tiles_34 = meld.tiles_34
              /\ meld'.tiles = meld.tiles]_vars

\* C28 witness: 2m 3m 4m, which a meld holds only after tiles was
\* reassigned, was read and is now cached.
C28_Witness ==
    /\ pc = "returned"
    /\ fn = "tiles_34"
    /\ meld.tiles = <<4, 8, 12>>
    /\ meld.type = <<"pon">>
    /\ ret = <<1, 2, 3>>
    /\ meld.tiles_34 = <<ret>>

====
